---- MODULE Spec2Model ----
(***************************************************************************)
(* Rate-limited embedding / retrieval pipeline of the RAG backend.         *)
(*                                                                         *)
(*   backend/core/embedder.py   Embedder  (budget window, batching, 429)   *)
(*   backend/core/ai_parser.py  AIParser  (budget window, daily ceiling,   *)
(*                              retry loop)                                *)
(*   backend/core/retriever.py  Retriever (rerank, fallback, threshold)    *)
(*   backend/core/vector_store.py  VectorStore (search, upsert)            *)
(*   backend/core/cache.py, backend/main.py  library cache                 *)
(*   backend/core/rate_limit.py       rate_limit_ip                        *)
(*   backend/core/request_counter.py  persisted daily counter              *)
(*   backend/routers/chat.py          generate_stream (RAG path)           *)
(*                                                                         *)
(* Units.  Time is in seconds; the clock advances in ticks of TickSeconds. *)
(* Token counts are plain integers.  Scores are in tenths (0.2 is 2,       *)
(* -5.0 is -50, 1.0 is 10).  A text is a record of its character count and *)
(* of the number of tokens the tiktoken encoding gives it; an embedding    *)
(* vector is identified by the text it embeds.                             *)
(***************************************************************************)
EXTENDS Integers, Sequences, FiniteSets, TLC

VARIABLES
    clock,            \* ticks elapsed; time.time() is clock * TickSeconds
    tokenizer,        \* Embedder._tokenizer is not None
    window_start,     \* Embedder._window_start
    window_requests,  \* Embedder._window_requests
    window_tokens,    \* Embedder._window_tokens
    pc,               \* position of each caller of the Embedder
    est,              \* estimated_tokens of each caller
    wake,             \* time.sleep() deadline of each sleeping caller
    checked,          \* counter values the caller's pending ceiling check read
    attempt,          \* _embed_batch: attempt
    batch,            \* the batch each caller passes to _embed_batch
    resp,             \* _embed_batch: the last HTTP response
    slept,            \* _embed_batch: seconds last asked of _sleep_with_jitter
    posted,           \* _embed_batch: the payload input of every POST of this call
    calls,            \* operations each caller has started
    texts,            \* embed_documents: texts
    i,                \* embed_documents: i
    shrunk,           \* embed_documents: the shrink branch ran for this batch
    all_embeddings,   \* embed_documents: all_embeddings
    batches,          \* embed_documents: <<i, len(batch)>> of every batch reserved
    parser,           \* AIParser budget fields
    budget_lock,      \* AIParser._budget_lock holder
    ppc,              \* position of each AIParser.parse_content caller
    pest,             \* estimated_tokens of each parse_content caller
    pwake,            \* sleep deadline of the parse_content caller
    entry,            \* AIParser budget fields when _wait_for_budget was entered
    late,             \* the window had elapsed when _wait_for_budget was entered
    returned,         \* AIParser.parse_content: what each caller's last call returned
    word,             \* Retriever.search: the dotted word of the query, as its segments
    hits,             \* Retriever.search: what VectorStore.search returned
    has_filename,     \* Retriever.search: the query names a file (filename is not None)
    results,          \* Retriever.search: results
    voyage,           \* the reranker's behaviour for this search
    reranked,         \* Retriever.search: reranked
    threshold,        \* Retriever.search: threshold
    filtered,         \* Retriever.search: the returned list
    rpc,              \* position of Retriever.search
    vpc,              \* VectorStore: position in search or upsert
    col,              \* VectorStore.search: index of the collection being searched
    vresults,         \* VectorStore.search: results
    answers,          \* VectorStore.search: what each collection's search did
    chunks,           \* VectorStore.upsert: chunks
    embeddings,       \* VectorStore.upsert: embeddings
    rows,             \* the rows inserted into each collection
    skipped,          \* VectorStore.upsert: skipped
    log,              \* VectorStore.upsert: the skip counts printed
    day,              \* calendar days that have begun since the AIParser was built
    today_tokens,     \* tokens the AIParser reserved since the last midnight
    raw_len,          \* AIParser.parse_content: len(raw_content) of each caller
    pattempt,         \* AIParser.parse_content: remote attempts of this invocation
    depth,            \* AIParser.parse_content: recursive re-invocations so far
    remote,           \* remote calls made for the caller's current parse_content call
    pbackoff,         \* AIParser.parse_content: deadline of the backoff sleep
    lib_store,        \* number of modifications the vector store has seen
    lib_cache,        \* Redis: the value under 'api:library' (NoKey when absent)
    lib_done,         \* modifications whose cache deletion has completed
    mpc,              \* position of the ingest / delete_source handler
    gpc,              \* position of each GET /api/library request
    gdata,            \* cache_get_or_set: data of each request
    gfloor,           \* lib_done when the request began
    gout,             \* what each request last returned
    ip_key,           \* Redis: the per-IP counter key, its count and expiry
    ipc,              \* position of each rate_limit_ip call
    ip_count,         \* rate_limit_ip: count of each call
    ip_verdict,       \* how each rate_limit_ip call ended
    utc_day,          \* get_today_date()
    counter_file,     \* contents of COUNTER_FILE
    upc,              \* position of each updater of the counter file
    counter,          \* the dict each updater loaded
    made,             \* increments made on the current UTC day
    llm_stream,       \* what llm.generate_stream will still do
    chunk_queue,      \* generate_stream: chunk_queue
    tpc,              \* position of the _stream_llm thread
    spc,              \* position of the generate_stream consumer
    has_results,      \* generate_stream: results is non-empty
    full_content_parts, \* generate_stream: full_content_parts
    events,           \* the events generate_stream has yielded
    response_cache    \* Redis: what was stored under the chat cache_key

embVars == <<tokenizer, window_start, window_requests, window_tokens, pc, est,
             wake, checked, attempt, batch, resp, slept, posted, calls>>
docVars == <<texts, i, shrunk, all_embeddings, batches>>
parVars == <<parser, budget_lock, ppc, pest, pwake, entry, late, returned>>
retVars == <<word, hits, has_filename, results, voyage, reranked, threshold, filtered, rpc>>
vsVars == <<vpc, col, vresults, answers, chunks, embeddings, rows, skipped, log>>
tryVars == <<day, today_tokens, raw_len, pattempt, depth, remote, pbackoff>>
libVars == <<lib_store, lib_cache, lib_done, mpc, gpc, gdata, gfloor, gout>>
ipVars == <<ip_key, ipc, ip_count, ip_verdict>>
cntVars == <<utc_day, counter_file, upc, counter, made>>
chatVars == <<llm_stream, chunk_queue, tpc, spc, has_results, full_content_parts, events,
              response_cache>>
otherVars == <<libVars, ipVars, cntVars, chatVars>>
restVars == <<tryVars, otherVars>>
coreVars == <<clock, embVars, docVars, parVars, retVars, vsVars, tryVars>>
vars == <<clock, embVars, docVars, parVars, retVars, vsVars, restVars>>

(***************************************************************************)
(* Bounds of the model.                                                    *)
(***************************************************************************)
MaxTicks == 4        \* clock ticks explored
TickSeconds == 30    \* seconds per tick
MaxCalls == 1        \* embed_query calls per concurrent caller
MaxTexts == 3        \* longest texts list given to embed_documents
Max429 == 6          \* 429 responses in a row explored for one _embed_batch call
MaxParses == 2       \* parse_content calls per concurrent caller
MaxHits == 5         \* hits the vector search returns
MaxItems == 2        \* items in the reranker's response
MaxQueries == 3      \* embed_query calls of one caller, one after the other
MaxColHits == 3      \* hits one collection returns
MaxChunks == 2       \* chunks of one upsert

(***************************************************************************)
(* Configuration.                                                          *)
(***************************************************************************)
window_seconds == 60
rpm_limit == 2
tpm_limit == 4
batch_size == 3

Min(a, b) == IF a <= b THEN a ELSE b
Max(a, b) == IF a >= b THEN a ELSE b

RECURSIVE Sum(_)
Sum(s) == IF s = <<>> THEN 0 ELSE Head(s) + Sum(Tail(s))

RECURSIVE Pow2(_)
Pow2(n) == IF n = 0 THEN 1 ELSE 2 * Pow2(n - 1)

\* Python slice s[a:b] with 0-based a, b >= a.
Slice(s, a, b) == SubSeq(s, a + 1, Min(b, Len(s)))

Now == clock * TickSeconds

(***************************************************************************)
(* Texts.  chars is len(t); toks is len(tokenizer.encode(t)).              *)
(***************************************************************************)
Texts ==
    { [chars |-> 0,  toks |-> 0],
      [chars |-> 4,  toks |-> 2],
      [chars |-> 22, toks |-> 4] }

\* Embedder._estimate_tokens
EstimateTokens(ts) ==
    IF ~tokenizer
    THEN Max(1, Sum([k \in 1..Len(ts) |-> ts[k].chars]) \div 4)
    ELSE Max(1, Sum([k \in 1..Len(ts) |->
                        IF ts[k].chars = 0 THEN 0 ELSE ts[k].toks]))

(***************************************************************************)
(* Callers of the shared Embedder.  Threads run Retriever.search ->         *)
(* embed_query on executor threads (routers/chat.py); "doc" runs           *)
(* embed_documents; "b" runs one _embed_batch call, on its own or for an   *)
(* embed_query; "q" runs embed_query calls one after the other.            *)
(***************************************************************************)
Threads == {"t1", "t2"}
Callers == Threads \cup {"doc", "b", "q"}

Sleeping == {"sleep_window", "sleep_429", "sleep_batch"}

\* Where a caller continues when its time.sleep() returns.
AfterSleep(label) ==
    CASE label = "sleep_window" -> "reset"
      [] label = "sleep_429"    -> "post"
      [] label = "sleep_batch"  -> "batch"

\* The vector the provider computes for a text.
Vec(t) == [embedding_of |-> t]

NoResp == [status |-> 0, retry_after |-> "absent", data |-> <<>>, prompt_tokens |-> -1]

(***************************************************************************)
(* Embedder._wait_for_budget                                               *)
(***************************************************************************)
ExceedsRpm(requests, requests_cost) == requests + requests_cost > rpm_limit

ExceedsTpm(tokens, tokens_cost) == tokens + tokens_cost > tpm_limit

\* Lines 70-87: lazy rollover, the ceiling check, and the decision to sleep.
WaitForBudget(t) ==
    /\ pc[t] = "wait"
    /\ LET now == Now
           rolled == now - window_start >= window_seconds
           ws == IF rolled THEN now ELSE window_start
           wr == IF rolled THEN 0 ELSE window_requests
           wt == IF rolled THEN 0 ELSE window_tokens
           exceeds == ExceedsRpm(wr, 1) \/ ExceedsTpm(wt, est[t])
           sleep_for == (ws + window_seconds) - now
       IN  /\ window_start' = ws
           /\ window_requests' = wr
           /\ window_tokens' = wt
           /\ checked' = [checked EXCEPT ![t] = <<wr, wt>>]
           /\ IF ~exceeds
              THEN /\ pc' = [pc EXCEPT ![t] = "reserve"]
                   /\ wake' = wake
              ELSE IF sleep_for > 0
              THEN /\ pc' = [pc EXCEPT ![t] = "sleep_window"]
                   /\ wake' = [wake EXCEPT ![t] = now + sleep_for]
              ELSE /\ pc' = [pc EXCEPT ![t] = "reset"]
                   /\ wake' = wake
    /\ UNCHANGED <<clock, tokenizer, est, attempt, batch, resp, slept, posted, calls,
                   docVars, parVars, retVars, vsVars, restVars>>

\* time.sleep(seconds + 0.05) returns once more than `seconds` have passed.
Wake(t) ==
    /\ pc[t] \in Sleeping
    /\ Now > wake[t]
    /\ pc' = [pc EXCEPT ![t] = AfterSleep(pc[t])]
    /\ wake' = [wake EXCEPT ![t] = 0]
    /\ UNCHANGED <<clock, tokenizer, window_start, window_requests, window_tokens,
                   est, checked, attempt, batch, resp, slept, posted, calls,
                   docVars, parVars, retVars, vsVars, restVars>>

\* A reset that starts a new window but keeps the token count.
ResetWindowKeepTokens(t) ==
    /\ pc[t] = "reset"
    /\ window_start' = Now
    /\ window_requests' = 0
    /\ pc' = [pc EXCEPT ![t] = "reserve"]
    /\ UNCHANGED <<clock, tokenizer, window_tokens, est, wake, checked, attempt, batch,
                   resp, slept, posted, calls, docVars, parVars, retVars, vsVars, restVars>>

\* Lines 89-91: the reset after the sleep.
ResetWindow(t) ==
    /\ pc[t] = "reset"
    /\ window_start' = Now
    /\ window_requests' = 0
    /\ window_tokens' = 0
    /\ pc' = [pc EXCEPT ![t] = "reserve"]
    /\ UNCHANGED <<clock, tokenizer, est, wake, checked, attempt, batch, resp, slept,
                   posted, calls, docVars, parVars, retVars, vsVars, restVars>>

\* embed_documents lines 179-180 and embed_query lines 206-207, then the entry of
\* _embed_batch (lines 94-108).
Reserve(t) ==
    /\ pc[t] = "reserve"
    /\ window_requests' = window_requests + 1
    /\ window_tokens' = window_tokens + est[t]
    /\ checked' = [checked EXCEPT ![t] = <<>>]
    /\ attempt' = [attempt EXCEPT ![t] = 0]
    /\ posted' = [posted EXCEPT ![t] = <<>>]
    /\ resp' = [resp EXCEPT ![t] = NoResp]
    /\ pc' = [pc EXCEPT ![t] = "post"]
    /\ batches' = IF t = "doc" THEN Append(batches, <<i, Len(batch[t])>>) ELSE batches
    /\ UNCHANGED <<clock, tokenizer, window_start, est, wake, batch, slept, calls,
                   texts, i, shrunk, all_embeddings, parVars, retVars, vsVars, restVars>>

\* Time passes: freely up to the horizon, and beyond it while a sleeper waits.
Tick ==
    /\ \/ clock < MaxTicks
       \/ \E t \in Callers : pc[t] \in Sleeping /\ Now <= wake[t]
    /\ clock' = clock + 1
    /\ UNCHANGED <<embVars, docVars, parVars, retVars, vsVars, restVars>>

(***************************************************************************)
(* Embedder._embed_batch                                                   *)
(***************************************************************************)
\* Values of the Retry-After header of a 429 response: absent, empty, an
\* HTTP-date, and delays in seconds.
RetryAfterHeaders == {"absent", "", "Wed, 21 Oct 2026 07:28:00 GMT", "0", "7", "90"}

\* float(s) of the header strings above that Python parses as a number.
ParseFloat == [s \in {"0", "7", "90"} |-> CASE s = "0" -> 0 [] s = "7" -> 7 [] s = "90" -> 90]

\* Embedder._get_retry_after_seconds; Optional[float] is {} (None) or {v}.
GetRetryAfterSeconds(h) ==
    IF h = "absent" \/ h = ""
    THEN {}
    ELSE IF h \in DOMAIN ParseFloat THEN {ParseFloat[h]} ELSE {}

\* Line 115 with the exponent left uncapped and no 60 s ceiling.
BackoffUncapped(retry_after_s, n) ==
    IF retry_after_s # {}
    THEN CHOOSE v \in retry_after_s : TRUE
    ELSE Pow2(n)

\* Line 115.
Backoff(retry_after_s, n) ==
    IF retry_after_s # {}
    THEN CHOOSE v \in retry_after_s : TRUE
    ELSE Min(60, Pow2(Min(n, 5)))

\* 429 responses one caller may be given in a row.
Limit429(t) == IF t = "b" THEN Max429 ELSE 1

\* Lines 110-118: POST answered 429.
Post429(t, h) ==
    /\ pc[t] = "post"
    /\ attempt[t] < Limit429(t)
    /\ LET n == attempt[t] + 1
           backoff == Backoff(GetRetryAfterSeconds(h), n)
       IN  /\ attempt' = [attempt EXCEPT ![t] = n]
           /\ posted' = [posted EXCEPT ![t] = Append(@, batch[t])]
           /\ resp' = [resp EXCEPT ![t] = [NoResp EXCEPT !.status = 429, !.retry_after = h]]
           /\ slept' = [slept EXCEPT ![t] = backoff]
           /\ IF backoff <= 0
              THEN UNCHANGED <<pc, wake>>
              ELSE /\ pc' = [pc EXCEPT ![t] = "sleep_429"]
                   /\ wake' = [wake EXCEPT ![t] = Now + backoff]
    /\ UNCHANGED <<clock, tokenizer, window_start, window_requests, window_tokens,
                   est, checked, batch, calls, docVars, parVars, retVars, vsVars, restVars>>

\* prompt_tokens of a response's usage; -1 stands for a missing or non-integer one.
Usages == {-1, 0, 5}

\* Lines 110-155: POST answered 200 with k well-formed items.
Post200(t, k, p) ==
    /\ pc[t] = "post"
    /\ k \in 0..Len(batch[t])
    /\ attempt' = [attempt EXCEPT ![t] = @ + 1]
    /\ posted' = [posted EXCEPT ![t] = Append(@, batch[t])]
    /\ resp' = [resp EXCEPT ![t] =
                  [NoResp EXCEPT !.status = 200,
                                 !.data = [j \in 1..k |-> Vec(batch[t][j])],
                                 !.prompt_tokens = p]]
    /\ pc' = [pc EXCEPT ![t] = "got"]
    /\ UNCHANGED <<clock, tokenizer, window_start, window_requests, window_tokens,
                   est, wake, checked, batch, slept, calls, docVars, parVars, retVars, vsVars, restVars>>

\* Lines 111, 120, 150-153: the POST raises (network error), raise_for_status
\* raises (a status other than 429 and 2xx), or an item has no embedding list.
PostRaises(t, status) ==
    /\ pc[t] = "post"
    /\ attempt' = [attempt EXCEPT ![t] = @ + 1]
    /\ posted' = [posted EXCEPT ![t] = Append(@, batch[t])]
    /\ resp' = [resp EXCEPT ![t] = [NoResp EXCEPT !.status = status]]
    /\ pc' = [pc EXCEPT ![t] = "raised"]
    /\ checked' = checked
    /\ UNCHANGED <<clock, tokenizer, window_start, window_requests, window_tokens,
                   est, wake, batch, slept, calls, docVars, parVars, retVars, vsVars, restVars>>

\* Statuses of PostRaises: -1 a network error, 500, and 200 with a malformed item.
RaisingStatuses == {-1, 500, 200}

(***************************************************************************)
(* Embedder.embed_query, as called by Retriever.search on executor threads *)
(***************************************************************************)
\* Calls explored per caller: "q" issues its queries one after the other.
CallLimit(t) == IF t = "q" THEN MaxQueries ELSE MaxCalls

\* The reported usage added on top of the estimate.
ReconcileAdd(tokens, prompt_tokens, estimated_tokens) ==
    IF prompt_tokens >= 0 THEN tokens + prompt_tokens ELSE tokens

\* embed_documents lines 188-189 and embed_query lines 210-211; prompt_tokens is
\* -1 when the provider reports no usage.
Reconcile(tokens, prompt_tokens, estimated_tokens) ==
    IF prompt_tokens >= 0 THEN tokens + (prompt_tokens - estimated_tokens) ELSE tokens

\* Lines 203-204.
EmbedQuery(t, query) ==
    /\ pc[t] \in {"idle", "raised"}
    /\ calls[t] < CallLimit(t)
    /\ calls' = [calls EXCEPT ![t] = @ + 1]
    /\ batch' = [batch EXCEPT ![t] = <<query>>]
    /\ est' = [est EXCEPT ![t] = EstimateTokens(<<query>>)]
    /\ pc' = [pc EXCEPT ![t] = "wait"]
    /\ UNCHANGED <<clock, tokenizer, window_start, window_requests, window_tokens,
                   wake, checked, attempt, resp, slept, posted,
                   docVars, parVars, retVars, vsVars, restVars>>

\* Lines 210-218.
QueryReturn(t) ==
    /\ pc[t] = "got"
    /\ t # "doc"
    /\ window_tokens' = Reconcile(window_tokens, resp[t].prompt_tokens, est[t])
    /\ pc' = [pc EXCEPT ![t] = IF resp[t].data = <<>> THEN "raised" ELSE "idle"]
    \* the call's locals go out of scope
    /\ est' = [est EXCEPT ![t] = 0]
    /\ batch' = [batch EXCEPT ![t] = <<>>]
    /\ attempt' = [attempt EXCEPT ![t] = 0]
    /\ posted' = [posted EXCEPT ![t] = <<>>]
    /\ resp' = [resp EXCEPT ![t] = NoResp]
    /\ UNCHANGED <<clock, tokenizer, window_start, window_requests, wake,
                   checked, slept, calls, docVars, parVars, retVars, vsVars, restVars>>

\* Queries the concurrent callers embed: a short one and one over the TPM ceiling.
Queries == {t \in Texts : t.chars \in {4, 22}}

(***************************************************************************)
(* Embedder.embed_documents                                                *)
(***************************************************************************)
\* Lines 170-171: max(1, int(len(batch) * max(0.01, tpm / float(estimated)))).
ShrinkSize(n, estimated) ==
    IF 100 * tpm_limit < estimated
    THEN Max(1, n \div 100)
    ELSE Max(1, (n * tpm_limit) \div estimated)

\* Lines 162-174: the loop test, the batch, its estimate and the shrink.
DocsBatch ==
    /\ pc["doc"] = "batch"
    /\ IF i < Len(texts)
       THEN LET b0 == Slice(texts, i, i + batch_size)
                e0 == EstimateTokens(b0)
                shrink == e0 > tpm_limit /\ Len(b0) > 1
                b == IF shrink THEN Slice(texts, i, i + ShrinkSize(Len(b0), e0)) ELSE b0
            IN  /\ batch' = [batch EXCEPT !["doc"] = b]
                /\ est' = [est EXCEPT !["doc"] = EstimateTokens(b)]
                /\ shrunk' = shrink
                /\ pc' = [pc EXCEPT !["doc"] = "wait"]
       ELSE /\ pc' = [pc EXCEPT !["doc"] = "done"]
            /\ UNCHANGED <<batch, est, shrunk>>
    /\ UNCHANGED <<clock, tokenizer, window_start, window_requests, window_tokens,
                   wake, checked, attempt, resp, slept, posted, calls,
                   texts, i, all_embeddings, batches, parVars, retVars, vsVars, restVars>>

\* Lines 185-197: collect the vectors, reconcile, advance, pause 3 s.
DocsCollect ==
    /\ pc["doc"] = "got"
    /\ all_embeddings' = all_embeddings \o resp["doc"].data
    /\ window_tokens' = Reconcile(window_tokens, resp["doc"].prompt_tokens, est["doc"])
    /\ i' = i + Len(batch["doc"])
    /\ IF i' < Len(texts)
       THEN /\ pc' = [pc EXCEPT !["doc"] = "sleep_batch"]
            /\ wake' = [wake EXCEPT !["doc"] = Now + 3]
       ELSE /\ pc' = [pc EXCEPT !["doc"] = "batch"]
            /\ wake' = wake
    /\ UNCHANGED <<clock, tokenizer, window_start, window_requests, est, checked,
                   attempt, batch, resp, slept, posted, calls,
                   texts, shrunk, batches, parVars, retVars, vsVars, restVars>>

(***************************************************************************)
(* Initial states.  Every specification starts the parts it does not run   *)
(* in their idle state.                                                    *)
(***************************************************************************)
RECURSIVE SeqsUpTo(_, _)
SeqsUpTo(S, n) ==
    IF n = 0
    THEN {<<>>}
    ELSE LET shorter == SeqsUpTo(S, n - 1)
         IN  shorter \cup {Append(q, x) : q \in shorter, x \in S}

\* Embedder.__init__ (lines 29-38) with every caller at `start`.
EmbedderInit(start) ==
    /\ clock = 0
    /\ tokenizer \in BOOLEAN
    /\ window_start = 0
    /\ window_requests = 0
    /\ window_tokens = 0
    /\ pc = [t \in Callers |-> start[t]]
    /\ est = [t \in Callers |-> 0]
    /\ wake = [t \in Callers |-> 0]
    /\ checked = [t \in Callers |-> <<>>]
    /\ attempt = [t \in Callers |-> 0]
    /\ resp = [t \in Callers |-> NoResp]
    /\ slept = [t \in Callers |-> 0]
    /\ posted = [t \in Callers |-> <<>>]
    /\ calls = [t \in Callers |-> 0]

DocsIdle ==
    /\ texts = <<>>
    /\ i = 0
    /\ shrunk = FALSE
    /\ all_embeddings = <<>>
    /\ batches = <<>>

NoBatch == [t \in Callers |-> <<>>]

Off == [t \in Callers |-> "off"]

\* parse_content has not returned to this caller.
NotReturned == [value |-> "pending", cause |-> "pending"]

ParserIdle ==
    /\ parser = [window_start |-> 0, window_requests |-> 0, window_tokens |-> 0,
                 daily_tokens |-> 0]
    /\ budget_lock = "free"
    /\ ppc = [t \in Threads |-> "off"]
    /\ pest = [t \in Threads |-> 0]
    /\ pwake = 0
    /\ entry = [t \in Threads |-> <<>>]
    /\ late = [t \in Threads |-> FALSE]
    /\ returned = [t \in Threads |-> NotReturned]

\* VECTOR_DB collection_docs and collection_chats.
Collections == <<"rag_documents", "rag_conversations">>

TryIdle ==
    /\ day = 0
    /\ today_tokens = 0
    /\ raw_len = [t \in Threads |-> 0]
    /\ pattempt = [t \in Threads |-> 0]
    /\ depth = [t \in Threads |-> 0]
    /\ remote = [t \in Threads |-> 0]
    /\ pbackoff = [t \in Threads |-> 0]

\* GET /api/library requests and rate_limit_ip calls in flight at once.
Requests == {"r1", "r2"}

\* The result of GET for a key that does not exist (None).
NoKey == -1

LibIdle ==
    /\ lib_store = 0
    /\ lib_cache = NoKey
    /\ lib_done = 0
    /\ mpc = "off"
    /\ gpc = [r \in Requests |-> "off"]
    /\ gdata = [r \in Requests |-> NoKey]
    /\ gfloor = [r \in Requests |-> 0]
    /\ gout = [r \in Requests |-> NoKey]

IpIdle ==
    /\ ip_key = [count |-> 0, expires |-> FALSE]
    /\ ipc = [r \in Requests |-> "off"]
    /\ ip_count = [r \in Requests |-> 0]
    /\ ip_verdict = [r \in Requests |-> "none"]

NoFile == [date |-> -1, embedding_requests |-> 0, embedding_chunks |-> 0,
           embedding_tokens_used |-> 0]

NoMade == [updates |-> 0, embedding_requests |-> 0, embedding_chunks |-> 0,
           embedding_tokens_used |-> 0]

CounterIdle ==
    /\ utc_day = 0
    /\ counter_file = NoFile
    /\ upc = [t \in Threads |-> "off"]
    /\ counter = [t \in Threads |-> NoFile]
    /\ made = NoMade

\* Nothing is stored under the chat cache_key.
NotCached == [stored |-> FALSE, content |-> <<>>, sources |-> FALSE]

ChatIdle ==
    /\ llm_stream = <<>>
    /\ chunk_queue = <<>>
    /\ tpc = "off"
    /\ spc = "off"
    /\ has_results = FALSE
    /\ full_content_parts = <<>>
    /\ events = <<>>
    /\ response_cache = NotCached

OtherIdle == LibIdle /\ IpIdle /\ CounterIdle /\ ChatIdle

RestIdle == TryIdle /\ OtherIdle

StoreIdle ==
    /\ vpc = "off"
    /\ col = 1
    /\ vresults = <<>>
    /\ answers = <<>>
    /\ chunks = <<>>
    /\ embeddings = <<>>
    /\ rows = [c \in {Collections[1], Collections[2]} |-> <<>>]
    /\ skipped = 0
    /\ log = <<>>

SearchIdle ==
    /\ word = <<>>
    /\ hits = <<>>
    /\ has_filename = FALSE
    /\ results = <<>>
    /\ voyage = [kind |-> "off", items |-> <<>>]
    /\ reranked = <<>>
    /\ threshold = 0
    /\ filtered = <<>>
    /\ rpc = "off"

(***************************************************************************)
(* SpecEmbedder: concurrent embed_query calls on one Embedder.             *)
(***************************************************************************)
InitEmbedder ==
    /\ EmbedderInit([t \in Callers |-> IF t \in Threads THEN "idle" ELSE "off"])
    /\ batch = NoBatch
    /\ DocsIdle /\ ParserIdle /\ SearchIdle /\ StoreIdle /\ RestIdle

NextEmbedder ==
    \/ Tick
    \/ \E t \in Threads :
          \/ \E q \in Queries : EmbedQuery(t, q)
          \/ WaitForBudget(t)
          \/ Wake(t)
          \/ ResetWindow(t)
          \/ Reserve(t)
          \/ \E k \in 0..1, p \in Usages : Post200(t, k, p)
          \/ PostRaises(t, 500)
          \/ QueryReturn(t)

SpecEmbedder == InitEmbedder /\ [][NextEmbedder]_vars

(***************************************************************************)
(* SpecQueries: one caller's embed_query calls, one after the other.       *)
(***************************************************************************)
InitQueries ==
    /\ EmbedderInit([t \in Callers |-> IF t = "q" THEN "idle" ELSE "off"])
    /\ batch = NoBatch
    /\ DocsIdle /\ ParserIdle /\ SearchIdle /\ StoreIdle /\ RestIdle

NextQueries ==
    \/ Tick
    \/ \E query \in Queries : EmbedQuery("q", query)
    \/ WaitForBudget("q")
    \/ Wake("q")
    \/ ResetWindow("q")
    \/ Reserve("q")
    \/ \E k \in 0..1, p \in Usages : Post200("q", k, p)
    \/ PostRaises("q", 500)
    \/ QueryReturn("q")

SpecQueries == InitQueries /\ [][NextQueries]_vars

(***************************************************************************)
(* SpecDocs: one embed_documents call.                                     *)
(***************************************************************************)
InitDocs ==
    /\ EmbedderInit([t \in Callers |-> IF t = "doc" THEN "batch" ELSE "off"])
    /\ batch = NoBatch
    /\ texts \in SeqsUpTo(Texts, MaxTexts)
    /\ i = 0
    /\ shrunk = FALSE
    /\ all_embeddings = <<>>
    /\ batches = <<>>
    /\ ParserIdle /\ SearchIdle /\ StoreIdle /\ RestIdle

NextDocs ==
    \/ Tick
    \/ DocsBatch
    \/ WaitForBudget("doc")
    \/ Wake("doc")
    \/ ResetWindow("doc")
    \/ Reserve("doc")
    \/ \E h \in {"absent", "7"} : Post429("doc", h)
    \/ \E k \in 0..batch_size, p \in Usages : Post200("doc", k, p)
    \/ \E st \in RaisingStatuses : PostRaises("doc", st)
    \/ DocsCollect

SpecDocs == InitDocs /\ [][NextDocs]_vars

\* SpecDocs with a provider that answers every 200 with one vector per input.
NextDocsComplete ==
    \/ Tick
    \/ DocsBatch
    \/ WaitForBudget("doc")
    \/ Wake("doc")
    \/ ResetWindow("doc")
    \/ Reserve("doc")
    \/ \E h \in {"absent", "7"} : Post429("doc", h)
    \/ \E p \in Usages : Post200("doc", Len(batch["doc"]), p)
    \/ DocsCollect

SpecDocsComplete == InitDocs /\ [][NextDocsComplete]_vars

(***************************************************************************)
(* SpecBatch: one _embed_batch call that the provider answers with a       *)
(* finite run of 429 responses and then a 200.  The provider answers every *)
(* POST, sleeps return and time passes.                                    *)
(***************************************************************************)
InitBatch ==
    /\ EmbedderInit([t \in Callers |-> IF t = "b" THEN "post" ELSE "off"])
    /\ batch \in {[NoBatch EXCEPT !["b"] = ts] :
                     ts \in SeqsUpTo(Texts, batch_size) \ {<<>>}}
    /\ DocsIdle /\ ParserIdle /\ SearchIdle /\ StoreIdle /\ RestIdle

Answer429 == \E h \in RetryAfterHeaders : Post429("b", h)

Answer200 == \E k \in 0..batch_size, p \in Usages : Post200("b", k, p)

NextBatch ==
    \/ Tick
    \/ Wake("b")
    \/ Answer429
    \/ Answer200

SpecBatch ==
    /\ InitBatch
    /\ [][NextBatch]_vars
    /\ WF_vars(Tick)
    /\ WF_vars(Wake("b"))
    /\ WF_vars(Answer429 \/ Answer200)

(***************************************************************************)
(* SpecRetry: one embed_query call whose _embed_batch is answered with a   *)
(* run of 429 responses.                                                   *)
(***************************************************************************)
InitRetry ==
    /\ EmbedderInit([t \in Callers |-> IF t = "b" THEN "idle" ELSE "off"])
    /\ batch = NoBatch
    /\ DocsIdle /\ ParserIdle /\ SearchIdle /\ StoreIdle /\ RestIdle

NextRetry ==
    \/ Tick
    \/ \E query \in Queries : EmbedQuery("b", query)
    \/ WaitForBudget("b")
    \/ Wake("b")
    \/ ResetWindow("b")
    \/ Reserve("b")
    \/ Answer429
    \/ Answer200
    \/ QueryReturn("b")

SpecRetry == InitRetry /\ [][NextRetry]_vars

(***************************************************************************)
(* AIParser (backend/core/ai_parser.py).  The limits of config.AI_PARSER   *)
(* are scaled down, keeping their order: the largest estimate of one       *)
(* request is below the TPM limit, which is below the TPD limit.           *)
(***************************************************************************)
parser_rpm_limit == 2
parser_tpm_limit == 6
parser_tpd_limit == 9
max_tokens == 2

\* len(raw_content) of the pages parsed; none is over max_input_chars.
PageChars == {4, 8, 12}

\* AIParser._estimate_tokens
ParserEstimate(chars) == Max(1, chars \div 4)

\* Lines 140-156: the estimate of one request.
ParseContent(t, chars) ==
    /\ ppc[t] = "idle"
    /\ calls[t] < MaxParses
    /\ calls' = [calls EXCEPT ![t] = @ + 1]
    /\ raw_len' = [raw_len EXCEPT ![t] = chars]
    /\ pest' = [pest EXCEPT ![t] = ParserEstimate(chars) + max_tokens]
    /\ ppc' = [ppc EXCEPT ![t] = "lock"]
    /\ returned' = [returned EXCEPT ![t] = NotReturned]
    /\ pattempt' = [pattempt EXCEPT ![t] = 0]
    /\ depth' = [depth EXCEPT ![t] = 0]
    /\ remote' = [remote EXCEPT ![t] = 0]
    /\ UNCHANGED <<clock, tokenizer, window_start, window_requests, window_tokens,
                   pc, est, wake, checked, attempt, batch, resp, slept, posted,
                   parser, budget_lock, pwake, entry, late, docVars, retVars, vsVars, otherVars,
                   day, today_tokens, pbackoff>>

\* Line 159: with self._budget_lock.
AcquireLock(t) ==
    /\ ppc[t] = "lock"
    /\ budget_lock = "free"
    /\ budget_lock' = t
    /\ ppc' = [ppc EXCEPT ![t] = "wait"]
    /\ UNCHANGED <<clock, embVars, docVars, parser, pest, pwake, entry, late, returned,
                   retVars, vsVars, restVars>>

\* Lines 98 and 104-110: the daily ceiling.
ExceedsTpd(daily, estimated) == daily + estimated > parser_tpd_limit

\* Lines 91-94: the fields after the lazy rollover.
Rollover(p, now) ==
    IF now - p.window_start >= window_seconds
    THEN [p EXCEPT !.window_start = now, !.window_requests = 0, !.window_tokens = 0]
    ELSE p

\* Lines 87-116; at "quota" the RuntimeError of line 107 has been raised.
ParserWaitForBudget(t) ==
    /\ ppc[t] = "wait"
    /\ LET now == Now
           p == Rollover(parser, now)
           exceeds_rpm == p.window_requests + 1 > parser_rpm_limit
           exceeds_tpm == p.window_tokens + pest[t] > parser_tpm_limit
           exceeds_tpd == ExceedsTpd(p.daily_tokens, pest[t])
           sleep_for == (p.window_start + window_seconds) - now
       IN  /\ parser' = p
           /\ entry' = [entry EXCEPT ![t] = parser]
           /\ late' = [late EXCEPT ![t] = (now - parser.window_start >= window_seconds)]
           /\ IF ~(exceeds_rpm \/ exceeds_tpm \/ exceeds_tpd)
              THEN /\ ppc' = [ppc EXCEPT ![t] = "reserve"]
                   /\ UNCHANGED <<budget_lock, pwake>>
              ELSE IF exceeds_tpd
              THEN /\ ppc' = [ppc EXCEPT ![t] = "quota"]
                   /\ UNCHANGED <<budget_lock, pwake>>
              ELSE IF sleep_for > 0
              THEN /\ ppc' = [ppc EXCEPT ![t] = "sleep"]
                   /\ pwake' = now + sleep_for
                   /\ budget_lock' = budget_lock
              ELSE /\ ppc' = [ppc EXCEPT ![t] = "reset"]
                   /\ UNCHANGED <<budget_lock, pwake>>
    /\ UNCHANGED <<clock, embVars, docVars, pest, returned, retVars, vsVars, restVars>>

\* AIParser._sleep_with_jitter returns (the lock is held meanwhile).
ParserWake(t) ==
    /\ ppc[t] = "sleep"
    /\ Now > pwake
    /\ ppc' = [ppc EXCEPT ![t] = "reset"]
    /\ pwake' = 0
    /\ UNCHANGED <<clock, embVars, docVars, parser, budget_lock, pest, entry, late,
                   returned, retVars, vsVars, restVars>>

\* Lines 118-121.
ParserReset(t) ==
    /\ ppc[t] = "reset"
    /\ parser' = [parser EXCEPT !.window_start = Now, !.window_requests = 0,
                                !.window_tokens = 0]
    /\ ppc' = [ppc EXCEPT ![t] = "reserve"]
    /\ UNCHANGED <<clock, embVars, docVars, budget_lock, pest, pwake, entry, late,
                   returned, retVars, vsVars, restVars>>

\* Lines 166-168, and the end of the with block.
ParserReserve(t) ==
    /\ ppc[t] = "reserve"
    /\ parser' = [parser EXCEPT !.window_requests = @ + 1,
                                !.window_tokens = @ + pest[t],
                                !.daily_tokens = @ + pest[t]]
    /\ today_tokens' = today_tokens + pest[t]
    /\ budget_lock' = "free"
    /\ ppc' = [ppc EXCEPT ![t] = "call"]
    /\ UNCHANGED <<clock, embVars, docVars, pest, pwake, entry, late, returned, retVars,
                   vsVars, otherVars, day, raw_len, pattempt, depth, remote, pbackoff>>

\* parse_content returns r to its caller; the call's locals go out of scope.
ParserLeave(t, r) ==
    /\ ppc' = [ppc EXCEPT ![t] = "idle"]
    /\ pest' = [pest EXCEPT ![t] = 0]
    /\ entry' = [entry EXCEPT ![t] = <<>>]
    /\ late' = [late EXCEPT ![t] = FALSE]
    /\ raw_len' = [raw_len EXCEPT ![t] = 0]
    /\ returned' = [returned EXCEPT ![t] = r]

\* Lines 162-164: the RuntimeError is caught, parse_content returns None and
\* leaves the with block.
ParserQuotaReturn(t) ==
    /\ ppc[t] = "quota"
    /\ budget_lock' = "free"
    /\ ParserLeave(t, [value |-> "None", cause |-> "quota"])
    /\ UNCHANGED <<clock, embVars, docVars, parser, pwake, retVars, vsVars, otherVars,
                   day, today_tokens, pattempt, depth, remote, pbackoff>>

\* Lines 203-208 and 236: what parse_content returns after the remote call, the
\* stripped completion or None (NO_VALID_CONTENT, an empty completion, retries
\* used up).
CallResults ==
    {[value |-> "text", cause |-> "parsed"],
     [value |-> "None", cause |-> "no_valid_content"]}

max_retries == 5

\* Lines 196-210: the remote call answers with a completion and parse_content
\* returns.
ParserReturn(t, r) ==
    /\ ppc[t] = "call"
    /\ pattempt[t] < max_retries
    /\ remote' = [remote EXCEPT ![t] = @ + 1]
    /\ pattempt' = [pattempt EXCEPT ![t] = @ + 1]
    /\ ParserLeave(t, r)
    /\ UNCHANGED <<clock, embVars, docVars, parser, budget_lock, pwake, retVars, vsVars, otherVars,
                   day, today_tokens, depth, pbackoff>>

\* Time passes for the parser's callers.
ParserTick ==
    /\ \/ clock < MaxTicks
       \/ \E t \in Threads : ppc[t] = "sleep" /\ Now <= pwake
       \/ \E t \in Threads : ppc[t] = "backoff" /\ Now <= pbackoff[t]
    /\ clock' = clock + 1
    /\ UNCHANGED <<embVars, docVars, parVars, retVars, vsVars, restVars>>

(***************************************************************************)
(* SpecParser: concurrent parse_content calls (asyncio.to_thread in        *)
(* ingestion/website.py) on the AIParser singleton.                        *)
(***************************************************************************)
InitParser ==
    /\ EmbedderInit(Off)
    /\ batch = NoBatch
    /\ DocsIdle /\ SearchIdle /\ StoreIdle /\ RestIdle
    /\ parser = [window_start |-> 0, window_requests |-> 0, window_tokens |-> 0,
                 daily_tokens |-> 0]
    /\ budget_lock = "free"
    /\ ppc = [t \in Threads |-> "idle"]
    /\ pest = [t \in Threads |-> 0]
    /\ pwake = 0
    /\ entry = [t \in Threads |-> <<>>]
    /\ late = [t \in Threads |-> FALSE]
    /\ returned = [t \in Threads |-> NotReturned]

NextParser ==
    \/ ParserTick
    \/ \E t \in Threads :
          \/ \E c \in PageChars : ParseContent(t, c)
          \/ AcquireLock(t)
          \/ ParserWaitForBudget(t)
          \/ ParserWake(t)
          \/ ParserReset(t)
          \/ ParserReserve(t)
          \/ ParserQuotaReturn(t)
          \/ \E r \in CallResults : ParserReturn(t, r)

SpecParser == InitParser /\ [][NextParser]_vars

(***************************************************************************)
(* The retry loop of AIParser.parse_content (lines 190-239).  An error of  *)
(* the remote call is classified by its message: rate limit, token limit,  *)
(* or anything else.                                                       *)
(***************************************************************************)
\* len(raw_content) above which a token-limit error retries on a prefix, and
\* the length of that prefix (3000 in the code, here on the scale of PageChars).
truncated_chars == 8

base_backoff == 2

\* Lines 216-220: a rate-limit error; back off base_backoff ** (attempt + 1).
ParserRateLimited(t) ==
    /\ ppc[t] = "call"
    /\ pattempt[t] < max_retries
    /\ remote' = [remote EXCEPT ![t] = @ + 1]
    /\ pbackoff' = [pbackoff EXCEPT ![t] = Now + base_backoff * Pow2(pattempt[t])]
    /\ pattempt' = [pattempt EXCEPT ![t] = @ + 1]
    /\ ppc' = [ppc EXCEPT ![t] = "backoff"]
    /\ UNCHANGED <<clock, embVars, docVars, parser, budget_lock, pest, pwake, entry, late,
                   returned, retVars, vsVars, otherVars, day, today_tokens, raw_len, depth>>

\* A recursion that passes raw_content on whole.
ParserTokenLimitSameInput(t, blank) ==
    /\ ppc[t] = "call"
    /\ pattempt[t] < max_retries
    /\ remote' = [remote EXCEPT ![t] = @ + 1]
    /\ IF raw_len[t] > truncated_chars
       THEN IF blank
            THEN /\ ParserLeave(t, [value |-> "None", cause |-> "blank"])
                 /\ pattempt' = [pattempt EXCEPT ![t] = @ + 1]
                 /\ depth' = [depth EXCEPT ![t] = @ + 1]
            ELSE /\ depth' = [depth EXCEPT ![t] = @ + 1]
                 /\ pattempt' = [pattempt EXCEPT ![t] = 0]
                 /\ raw_len' = raw_len
                 /\ pest' = [pest EXCEPT ![t] = ParserEstimate(raw_len[t]) + max_tokens]
                 /\ ppc' = [ppc EXCEPT ![t] = "lock"]
                 /\ UNCHANGED <<entry, late, returned>>
       ELSE /\ ParserLeave(t, [value |-> "None", cause |-> "token_limit"])
            /\ pattempt' = [pattempt EXCEPT ![t] = @ + 1]
            /\ depth' = depth
    /\ UNCHANGED <<clock, embVars, docVars, parser, budget_lock, pwake, retVars, vsVars, otherVars,
                   day, today_tokens, pbackoff>>

\* Lines 223-228: a token-limit error; parse_content calls itself on the first
\* truncated_chars characters when the input is longer, and that call returns
\* None at line 141 when the prefix is blank.
ParserTokenLimit(t, blank) ==
    /\ ppc[t] = "call"
    /\ pattempt[t] < max_retries
    /\ remote' = [remote EXCEPT ![t] = @ + 1]
    /\ IF raw_len[t] > truncated_chars
       THEN IF blank
            THEN /\ ParserLeave(t, [value |-> "None", cause |-> "blank"])
                 /\ pattempt' = [pattempt EXCEPT ![t] = @ + 1]
                 /\ depth' = [depth EXCEPT ![t] = @ + 1]
            ELSE /\ depth' = [depth EXCEPT ![t] = @ + 1]
                 /\ pattempt' = [pattempt EXCEPT ![t] = 0]
                 /\ raw_len' = [raw_len EXCEPT ![t] = truncated_chars]
                 /\ pest' = [pest EXCEPT ![t] = ParserEstimate(truncated_chars) + max_tokens]
                 /\ ppc' = [ppc EXCEPT ![t] = "lock"]
                 /\ UNCHANGED <<entry, late, returned>>
       ELSE /\ ParserLeave(t, [value |-> "None", cause |-> "token_limit"])
            /\ pattempt' = [pattempt EXCEPT ![t] = @ + 1]
            /\ depth' = depth
    /\ UNCHANGED <<clock, embVars, docVars, parser, budget_lock, pwake, retVars, vsVars, otherVars,
                   day, today_tokens, pbackoff>>

\* Lines 230-237: any other error; sleep 1 s and retry, or give up on the last
\* attempt.
ParserOtherError(t) ==
    /\ ppc[t] = "call"
    /\ pattempt[t] < max_retries
    /\ remote' = [remote EXCEPT ![t] = @ + 1]
    /\ pattempt' = [pattempt EXCEPT ![t] = @ + 1]
    /\ IF pattempt[t] < max_retries - 1
       THEN /\ pbackoff' = [pbackoff EXCEPT ![t] = Now + 1]
            /\ ppc' = [ppc EXCEPT ![t] = "backoff"]
            /\ UNCHANGED <<pest, entry, late, returned, raw_len>>
       ELSE /\ ParserLeave(t, [value |-> "None", cause |-> "failed"])
            /\ pbackoff' = pbackoff
    /\ UNCHANGED <<clock, embVars, docVars, parser, budget_lock, pwake, retVars, vsVars, otherVars,
                   day, today_tokens, depth>>

\* The backoff sleep returns: the next iteration of the loop, or line 239 when
\* the range is used up.
ParserBackoffWake(t) ==
    /\ ppc[t] = "backoff"
    /\ Now > pbackoff[t]
    /\ pbackoff' = [pbackoff EXCEPT ![t] = 0]
    /\ IF pattempt[t] < max_retries
       THEN /\ ppc' = [ppc EXCEPT ![t] = "call"]
            /\ UNCHANGED <<pest, entry, late, returned, raw_len>>
       ELSE ParserLeave(t, [value |-> "None", cause |-> "exhausted"])
    /\ UNCHANGED <<clock, embVars, docVars, parser, budget_lock, pwake, retVars, vsVars, otherVars,
                   day, today_tokens, pattempt, depth, remote>>

\* Calendar days explored.
MaxDays == 1

\* The calendar day changes; the AIParser reads no date.
Midnight ==
    /\ day < MaxDays
    /\ day' = day + 1
    /\ today_tokens' = 0
    /\ UNCHANGED <<clock, embVars, docVars, parVars, retVars, vsVars, otherVars,
                   raw_len, pattempt, depth, remote, pbackoff>>

(***************************************************************************)
(* SpecParse: one caller's parse_content calls with the retry loop, over   *)
(* a change of day.  The remote call answers, sleeps return, time passes.  *)
(***************************************************************************)
InitParse ==
    /\ EmbedderInit(Off)
    /\ batch = NoBatch
    /\ DocsIdle /\ SearchIdle /\ StoreIdle /\ TryIdle /\ OtherIdle
    /\ parser = [window_start |-> 0, window_requests |-> 0, window_tokens |-> 0,
                 daily_tokens |-> 0]
    /\ budget_lock = "free"
    /\ ppc = [t \in Threads |-> IF t = "t1" THEN "idle" ELSE "off"]
    /\ pest = [t \in Threads |-> 0]
    /\ pwake = 0
    /\ entry = [t \in Threads |-> <<>>]
    /\ late = [t \in Threads |-> FALSE]
    /\ returned = [t \in Threads |-> NotReturned]

ParseStep ==
    \/ \E c \in PageChars : ParseContent("t1", c)
    \/ AcquireLock("t1")
    \/ ParserWaitForBudget("t1")
    \/ ParserWake("t1")
    \/ ParserReset("t1")
    \/ ParserReserve("t1")
    \/ ParserQuotaReturn("t1")
    \/ \E r \in CallResults : ParserReturn("t1", r)
    \/ ParserRateLimited("t1")
    \/ \E blank \in BOOLEAN : ParserTokenLimit("t1", blank)
    \/ ParserOtherError("t1")
    \/ ParserBackoffWake("t1")

NextParse ==
    \/ ParserTick
    \/ Midnight
    \/ ParseStep

SpecParse ==
    /\ InitParse
    /\ [][NextParse]_vars
    /\ WF_vars(ParserTick)
    /\ WF_vars(ParseStep)

(***************************************************************************)
(* The library cache: GET /api/library through cache_get_or_set            *)
(* (main.py, core/cache.py) against the ingest endpoints and               *)
(* DELETE /api/library (routers/ingest.py, main.py).  The content of the   *)
(* vector store is identified by the number of modifications it has seen.  *)
(* A Redis command takes effect at the server in one step; the handlers    *)
(* can be interleaved at every await.                                      *)
(***************************************************************************)
MaxEdits == 2        \* modifications of the store explored

\* get_library is called.
LibBegin(r) ==
    /\ gpc[r] = "idle"
    /\ gpc' = [gpc EXCEPT ![r] = "get"]
    /\ gfloor' = [gfloor EXCEPT ![r] = lib_done]
    /\ gdata' = [gdata EXCEPT ![r] = NoKey]
    /\ gout' = [gout EXCEPT ![r] = NoKey]
    /\ UNCHANGED <<coreVars, lib_store, lib_cache, lib_done, mpc, ipVars, cntVars, chatVars>>

\* cache.py lines 31-42: redis.get; a hit is returned, a miss goes on to fetch
\* and set, an error goes on to fetch alone.
LibCacheGet(r, ok) ==
    /\ gpc[r] = "get"
    /\ IF ok /\ lib_cache # NoKey
       THEN /\ gout' = [gout EXCEPT ![r] = lib_cache]
            /\ gpc' = [gpc EXCEPT ![r] = "idle"]
       ELSE /\ gpc' = [gpc EXCEPT ![r] = IF ok THEN "fetch" ELSE "fetch_only"]
            /\ gout' = gout
    /\ UNCHANGED <<coreVars, lib_store, lib_cache, lib_done, mpc, gdata, gfloor,
                   ipVars, cntVars, chatVars>>

\* main.py lines 82-99 (_fetch): the sources are read from the vector store.
LibFetch(r) ==
    /\ gpc[r] \in {"fetch", "fetch_only"}
    /\ gdata' = [gdata EXCEPT ![r] = lib_store]
    /\ IF gpc[r] = "fetch"
       THEN /\ gpc' = [gpc EXCEPT ![r] = "set"]
            /\ gout' = gout
       ELSE /\ gpc' = [gpc EXCEPT ![r] = "idle"]
            /\ gout' = [gout EXCEPT ![r] = lib_store]
    /\ UNCHANGED <<coreVars, lib_store, lib_cache, lib_done, mpc, gfloor,
                   ipVars, cntVars, chatVars>>

\* cache.py lines 46-51: redis.set_json, errors ignored; data is returned.
LibCacheSet(r, ok) ==
    /\ gpc[r] = "set"
    /\ lib_cache' = IF ok THEN gdata[r] ELSE lib_cache
    /\ gout' = [gout EXCEPT ![r] = gdata[r]]
    /\ gpc' = [gpc EXCEPT ![r] = "idle"]
    /\ UNCHANGED <<coreVars, lib_store, lib_done, mpc, gdata, gfloor,
                   ipVars, cntVars, chatVars>>

\* The key's ttl_seconds = 60 run out.
LibExpire ==
    /\ lib_cache # NoKey
    /\ lib_cache' = NoKey
    /\ UNCHANGED <<coreVars, lib_store, lib_done, mpc, gpc, gdata, gfloor, gout,
                   ipVars, cntVars, chatVars>>

\* vector_store.upsert of an ingest endpoint, or vector_store.delete_source.
LibModify ==
    /\ mpc = "idle"
    /\ lib_store < MaxEdits
    /\ lib_store' = lib_store + 1
    /\ mpc' = "bust"
    /\ UNCHANGED <<coreVars, lib_cache, lib_done, gpc, gdata, gfloor, gout,
                   ipVars, cntVars, chatVars>>

\* _bust_library_cache (ingest.py lines 35-40) and main.py line 125:
\* redis.delete('api:library'); when it fails the key stays.
LibBust(ok) ==
    /\ mpc = "bust"
    /\ mpc' = "idle"
    /\ IF ok
       THEN lib_cache' = NoKey /\ lib_done' = lib_store
       ELSE UNCHANGED <<lib_cache, lib_done>>
    /\ UNCHANGED <<coreVars, lib_store, gpc, gdata, gfloor, gout, ipVars, cntVars, chatVars>>

InitLibrary ==
    /\ EmbedderInit(Off)
    /\ batch = NoBatch
    /\ DocsIdle /\ ParserIdle /\ SearchIdle /\ StoreIdle /\ TryIdle
    /\ IpIdle /\ CounterIdle /\ ChatIdle
    /\ lib_store = 0
    /\ lib_cache = NoKey
    /\ lib_done = 0
    /\ mpc = "idle"
    /\ gpc = [r \in Requests |-> "idle"]
    /\ gdata = [r \in Requests |-> NoKey]
    /\ gfloor = [r \in Requests |-> 0]
    /\ gout = [r \in Requests |-> NoKey]

NextLibrary ==
    \/ LibModify
    \/ \E ok \in BOOLEAN : LibBust(ok)
    \/ LibExpire
    \/ \E r \in Requests :
          \/ LibBegin(r)
          \/ \E ok \in BOOLEAN : LibCacheGet(r, ok)
          \/ LibFetch(r)
          \/ \E ok \in BOOLEAN : LibCacheSet(r, ok)

SpecLibrary == InitLibrary /\ [][NextLibrary]_vars

(***************************************************************************)
(* rate_limit_ip (core/rate_limit.py) for requests of one IP address.  The *)
(* Redis key holds a count and may carry an expiry.  A Redis command can   *)
(* succeed, fail before it takes effect, or take effect and lose its       *)
(* answer; the last two raise in the caller.                               *)
(***************************************************************************)
ip_limit == 2

MaxIpCount == 4      \* highest count of the key at which a request still arrives

RedisOutcomes == {"ok", "failed", "lost"}

\* Lines 15-18: a request arrives.
IpBegin(r) ==
    /\ ipc[r] = "idle"
    /\ ip_key.count < MaxIpCount
    /\ ipc' = [ipc EXCEPT ![r] = "incr"]
    /\ ip_count' = [ip_count EXCEPT ![r] = 0]
    /\ ip_verdict' = [ip_verdict EXCEPT ![r] = "none"]
    /\ UNCHANGED <<coreVars, libVars, ip_key, cntVars, chatVars>>

\* Lines 21-22 and 24-25: redis.incr; an exception lets the request through.
IpIncr(r, outcome) ==
    /\ ipc[r] = "incr"
    /\ ip_key' = IF outcome = "failed" THEN ip_key ELSE [ip_key EXCEPT !.count = @ + 1]
    /\ IF outcome = "ok"
       THEN /\ ip_count' = [ip_count EXCEPT ![r] = ip_key.count + 1]
            /\ ipc' = [ipc EXCEPT ![r] = IF ip_key.count + 1 = 1 THEN "expire" ELSE "check"]
            /\ ip_verdict' = ip_verdict
       ELSE /\ ip_count' = ip_count
            /\ ipc' = [ipc EXCEPT ![r] = "idle"]
            /\ ip_verdict' = [ip_verdict EXCEPT ![r] = "allowed"]
    /\ UNCHANGED <<coreVars, libVars, cntVars, chatVars>>

\* Lines 23-25: redis.expire after the first increment; an exception lets the
\* request through.
IpExpire(r, outcome) ==
    /\ ipc[r] = "expire"
    /\ ip_key' = IF outcome = "failed" \/ ip_key.count = 0
                 THEN ip_key
                 ELSE [ip_key EXCEPT !.expires = TRUE]
    /\ IF outcome = "ok"
       THEN /\ ipc' = [ipc EXCEPT ![r] = "check"]
            /\ ip_verdict' = ip_verdict
       ELSE /\ ipc' = [ipc EXCEPT ![r] = "idle"]
            /\ ip_verdict' = [ip_verdict EXCEPT ![r] = "allowed"]
    /\ UNCHANGED <<coreVars, libVars, ip_count, cntVars, chatVars>>

\* Lines 27-28.
IpCheck(r) ==
    /\ ipc[r] = "check"
    /\ ip_verdict' = [ip_verdict EXCEPT ![r] =
                         IF ip_count[r] > ip_limit THEN "rejected" ELSE "allowed"]
    /\ ipc' = [ipc EXCEPT ![r] = "idle"]
    /\ UNCHANGED <<coreVars, libVars, ip_key, ip_count, cntVars, chatVars>>

\* window_seconds after EXPIRE the key is gone.
IpKeyExpires ==
    /\ ip_key.count > 0
    /\ ip_key.expires
    /\ ip_key' = [count |-> 0, expires |-> FALSE]
    /\ UNCHANGED <<coreVars, libVars, ipc, ip_count, ip_verdict, cntVars, chatVars>>

InitIp ==
    /\ EmbedderInit(Off)
    /\ batch = NoBatch
    /\ DocsIdle /\ ParserIdle /\ SearchIdle /\ StoreIdle /\ TryIdle
    /\ LibIdle /\ CounterIdle /\ ChatIdle
    /\ ip_key = [count |-> 0, expires |-> FALSE]
    /\ ipc = [r \in Requests |-> "idle"]
    /\ ip_count = [r \in Requests |-> 0]
    /\ ip_verdict = [r \in Requests |-> "none"]

NextIp ==
    \/ IpKeyExpires
    \/ \E r \in Requests :
          \/ IpBegin(r)
          \/ \E o \in RedisOutcomes : IpIncr(r, o)
          \/ \E o \in RedisOutcomes : IpExpire(r, o)
          \/ IpCheck(r)

SpecIp == InitIp /\ [][NextIp]_vars

(***************************************************************************)
(* The persisted daily counter (core/request_counter.py): every update is  *)
(* a load of COUNTER_FILE, a change of the loaded dict and a save of the   *)
(* whole dict.  Updaters are the threads running embed_query or            *)
(* embed_documents: the token update inside _embed_batch and               *)
(* increment_embedding_count after it.  A date is the number of its day;   *)
(* -1 is the empty date of a missing file.                                 *)
(***************************************************************************)
MaxUpdates == 3      \* updates explored per UTC day
MaxUtcDays == 1      \* changes of the UTC day explored

\* usage.prompt_tokens of a 200 answer, and len(batch) of a call.
TokenAmounts == {5}
ChunkCounts == {1, 3}

UpdaterIdle == [at |-> "idle", kind |-> "none", n |-> 0]

\* Updates begun and not yet saved.
InFlight == Cardinality({t \in Threads : upc[t].at # "idle"})

\* _load_counter (lines 13-29) and get_today_date, at the start of
\* increment_embedding_count (lines 48-49) or of the token update
\* (embedder.py lines 133-134).
CounterLoad(t, kind, n) ==
    /\ upc[t].at = "idle"
    /\ made.updates + InFlight < MaxUpdates
    /\ upc' = [upc EXCEPT ![t] = [at |-> "loaded", kind |-> kind, n |-> n]]
    /\ counter' = [counter EXCEPT ![t] = counter_file]
    /\ UNCHANGED <<coreVars, libVars, ipVars, utc_day, counter_file, made, chatVars>>

\* The dict of a new day (request_counter.py line 53, embedder.py line 136).
NewDay(today) ==
    [date |-> today, embedding_requests |-> 0, embedding_chunks |-> 0,
     embedding_tokens_used |-> 0]

\* increment_embedding_count lines 52-57 and embedder.py lines 135-143: reset
\* on a new day, add, and _save_counter.
CounterSave(t) ==
    /\ upc[t].at = "loaded"
    /\ LET c == IF counter[t].date # utc_day THEN NewDay(utc_day) ELSE counter[t]
           n == upc[t].n
       IN  IF upc[t].kind = "tokens"
           THEN /\ counter_file' = [c EXCEPT !.embedding_tokens_used = @ + n]
                /\ made' = [made EXCEPT !.updates = @ + 1,
                                        !.embedding_tokens_used = @ + n]
           ELSE /\ counter_file' = [c EXCEPT !.embedding_requests = @ + 1,
                                             !.embedding_chunks = @ + n]
                /\ made' = [made EXCEPT !.updates = @ + 1,
                                        !.embedding_requests = @ + 1,
                                        !.embedding_chunks = @ + n]
    /\ upc' = [upc EXCEPT ![t] = UpdaterIdle]
    /\ counter' = [counter EXCEPT ![t] = NoFile]
    /\ UNCHANGED <<coreVars, libVars, ipVars, utc_day, chatVars>>

\* The UTC day changes while no update is under way.
UtcMidnight ==
    /\ utc_day < MaxUtcDays
    /\ InFlight = 0
    /\ utc_day' = utc_day + 1
    /\ made' = NoMade
    /\ UNCHANGED <<coreVars, libVars, ipVars, counter_file, upc, counter, chatVars>>

InitCounter ==
    /\ EmbedderInit(Off)
    /\ batch = NoBatch
    /\ DocsIdle /\ ParserIdle /\ SearchIdle /\ StoreIdle /\ TryIdle
    /\ LibIdle /\ IpIdle /\ ChatIdle
    /\ utc_day = 0
    /\ counter_file = NoFile
    /\ upc = [t \in Threads |-> UpdaterIdle]
    /\ counter = [t \in Threads |-> NoFile]
    /\ made = NoMade

Update(t) ==
    \/ \E n \in TokenAmounts : CounterLoad(t, "tokens", n)
    \/ \E n \in ChunkCounts : CounterLoad(t, "increment", n)
    \/ CounterSave(t)

NextCounter ==
    \/ UtcMidnight
    \/ \E t \in Threads : Update(t)

SpecCounter == InitCounter /\ [][NextCounter]_vars

\* The same updates made by one thread, one after the other.
NextCounterSerial ==
    \/ UtcMidnight
    \/ Update("t1")

SpecCounterSerial == InitCounter /\ [][NextCounterSerial]_vars

(***************************************************************************)
(* The RAG path of generate_stream (routers/chat.py lines 419-480): the    *)
(* _stream_llm thread puts the LLM's chunks on chunk_queue, the generator  *)
(* takes them off and yields events.  The LLM iterator yields its chunks   *)
(* 1..n in turn and then returns or raises; the error text is chunk 0.     *)
(***************************************************************************)
MaxLlmChunks == 3    \* chunks of one LLM answer

Event(type, data) == [type |-> type, data |-> data]

\* Lines 430-437: one step of _stream_llm, a put on the queue.
StreamLlm ==
    /\ tpc.at = "run"
    /\ IF tpc.next <= llm_stream.chunks
       THEN /\ chunk_queue' = Append(chunk_queue, Event("chunk", tpc.next))
            /\ tpc' = [tpc EXCEPT !.next = @ + 1]
       ELSE IF llm_stream.ends = "return"
       THEN /\ chunk_queue' = Append(chunk_queue, Event("done", 0))
            /\ tpc' = [tpc EXCEPT !.at = "exited_done"]
       ELSE /\ chunk_queue' = Append(chunk_queue, Event("error", 0))
            /\ tpc' = [tpc EXCEPT !.at = "exited_error"]
    /\ UNCHANGED <<coreVars, libVars, ipVars, cntVars, llm_stream, spc, has_results,
                   full_content_parts, events, response_cache>>

\* Lines 444-453: chunk_queue.get() returns an item and the loop handles it.
StreamGet ==
    /\ spc = "loop"
    /\ chunk_queue # <<>>
    /\ chunk_queue' = Tail(chunk_queue)
    /\ LET item == Head(chunk_queue)
       IN  CASE item.type = "done" ->
                  /\ spc' = "join"
                  /\ UNCHANGED <<full_content_parts, events>>
             [] item.type = "error" ->
                  /\ events' = Append(events, Event("content", item.data))
                  /\ spc' = "join"
                  /\ full_content_parts' = full_content_parts
             [] item.type = "chunk" ->
                  /\ full_content_parts' = Append(full_content_parts, item.data)
                  /\ events' = Append(events, Event("content", item.data))
                  /\ spc' = spc
    /\ UNCHANGED <<coreVars, libVars, ipVars, cntVars, llm_stream, tpc, has_results,
                   response_cache>>

\* Lines 455-470: thread.join(), the sources event and [DONE].
StreamFinish ==
    /\ spc = "join"
    /\ tpc.at \in {"exited_done", "exited_error"}
    /\ events' = events
                 \o (IF has_results THEN <<Event("sources", 0)>> ELSE <<>>)
                 \o <<Event("[DONE]", 0)>>
    /\ spc' = "cache"
    /\ UNCHANGED <<coreVars, libVars, ipVars, cntVars, llm_stream, chunk_queue, tpc,
                   has_results, full_content_parts, response_cache>>

\* Lines 472-480: redis.set_json(cache_key, ...), errors ignored.
StreamCache(ok) ==
    /\ spc = "cache"
    /\ response_cache' = IF ok
                         THEN [stored |-> TRUE, content |-> full_content_parts,
                               sources |-> has_results]
                         ELSE response_cache
    /\ spc' = "finished"
    /\ UNCHANGED <<coreVars, libVars, ipVars, cntVars, llm_stream, chunk_queue, tpc,
                   has_results, full_content_parts, events>>

\* Lines 428-441: the queue is created and the thread started.
InitChat ==
    /\ EmbedderInit(Off)
    /\ batch = NoBatch
    /\ DocsIdle /\ ParserIdle /\ SearchIdle /\ StoreIdle /\ TryIdle
    /\ LibIdle /\ IpIdle /\ CounterIdle
    /\ llm_stream \in [chunks : 0..MaxLlmChunks, ends : {"return", "raise"}]
    /\ chunk_queue = <<>>
    /\ tpc = [at |-> "run", next |-> 1]
    /\ spc = "loop"
    /\ has_results \in BOOLEAN
    /\ full_content_parts = <<>>
    /\ events = <<>>
    /\ response_cache = NotCached

NextChat ==
    \/ StreamLlm
    \/ StreamGet
    \/ StreamFinish
    \/ \E ok \in BOOLEAN : StreamCache(ok)

SpecChat ==
    /\ InitChat
    /\ [][NextChat]_vars
    /\ WF_vars(NextChat)

(***************************************************************************)
(* Retriever (backend/core/retriever.py).  Scores are in tenths.  A hit is *)
(* [id, score, match]: its rank in the vector store's answer, its cosine   *)
(* similarity, and whether its file_path contains the query's filename.    *)
(* A ranked result adds rerank_score and _is_fallback.                     *)
(***************************************************************************)
top_k_rerank == 4
score_threshold == -50
fallback_floor == 2

\* Similarities the vector store reports: a negative one and one above the floor.
HitScores == {-3, 5}

\* relevance_score values of the reranker: below, at and above score_threshold.
RelevanceScores == {-60, -50, 3}

RECURSIVE InsertDesc(_, _)
\* list.sort(key=rerank_score, reverse=True) is stable: r goes after its equals.
InsertDesc(sorted, r) ==
    IF sorted = <<>>
    THEN <<r>>
    ELSE IF Head(sorted).rerank_score >= r.rerank_score
         THEN <<Head(sorted)>> \o InsertDesc(Tail(sorted), r)
         ELSE <<r>> \o sorted

RECURSIVE SortDesc(_)
SortDesc(rs) ==
    IF rs = <<>> THEN <<>>
    ELSE InsertDesc(SortDesc(SubSeq(rs, 1, Len(rs) - 1)), rs[Len(rs)])

\* The raw similarity, unclamped.
ClampNone(raw_score) == raw_score

\* Line 204: max(0.0, min(1.0, float(raw_score))).
Clamp(raw_score) == Max(0, Min(10, raw_score))

\* The fallback over every candidate instead of the first top_k_rerank.
FallbackRankAll(rs) ==
    SortDesc([k \in 1..Len(rs) |->
                [id |-> rs[k].id, score |-> rs[k].score,
                 has_rerank_score |-> TRUE,
                 rerank_score |-> Clamp(rs[k].score),
                 is_fallback |-> TRUE]])

\* Retriever._fallback_rank (lines 194-209).
FallbackRank(rs) ==
    LET top == Slice(rs, 0, top_k_rerank)
    IN  SortDesc([k \in 1..Len(top) |->
                    [id |-> top[k].id, score |-> top[k].score,
                     has_rerank_score |-> TRUE,
                     rerank_score |-> Clamp(top[k].score),
                     is_fallback |-> TRUE]])

\* results[index] of Python: a negative index counts from the end.
PyIndex(rs, index) == IF index >= 0 THEN rs[index + 1] ELSE rs[Len(rs) + index + 1]

RECURSIVE MapItems(_, _)
\* Lines 175-182: the items mapped back onto results.
MapItems(items, rs) ==
    IF items = <<>>
    THEN <<>>
    ELSE LET item == Head(items)
             rest == MapItems(Tail(items), rs)
         IN  IF item.index < Len(rs)
             THEN <<[id |-> PyIndex(rs, item.index).id,
                     score |-> PyIndex(rs, item.index).score,
                     has_rerank_score |-> TRUE,
                     rerank_score |-> item.relevance_score,
                     is_fallback |-> FALSE]>> \o rest
             ELSE rest

\* Ways the remote reranker is unavailable: no VOYAGE_API_KEY, a timeout, any
\* other exception, a status other than 200, an empty data field.
Failures == {"nokey", "timeout", "exception", "non200", "empty"}

\* An item's index is one of: before the first hit counted from the end, the
\* last hit counted from the end, the first hit, the last hit, one past the last.
ItemIndexes(rs) == {-Len(rs) - 1, -1, 0, Len(rs) - 1, Len(rs)}

VoyageAnswers(rs) ==
    {[kind |-> f, items |-> <<>>] : f \in Failures}
    \cup {[kind |-> "ok", items |-> its] :
            its \in SeqsUpTo([index : ItemIndexes(rs), relevance_score : RelevanceScores],
                             MaxItems) \ {<<>>}}

\* The reranker is unavailable, or results[index] raises IndexError in the loop
\* (caught at line 190).
Fails(rs, v) ==
    \/ v.kind \in Failures
    \/ \E k \in 1..Len(v.items) : v.items[k].index < -Len(rs)

RECURSIVE MappedBeforeError(_, _)
\* The items mapped before results[index] raises.
MappedBeforeError(items, rs) ==
    IF items = <<>> \/ Head(items).index < -Len(rs)
    THEN <<>>
    ELSE <<Head(items)>> \o MappedBeforeError(Tail(items), rs)

\* A fallback that keeps what the remote path had mapped before it failed.
RerankKeepPartial(rs, v) ==
    IF v.kind \in Failures
    THEN FallbackRank(rs)
    ELSE IF Fails(rs, v)
         THEN MapItems(MappedBeforeError(v.items, rs), rs) \o FallbackRank(rs)
         ELSE MapItems(v.items, rs)

\* Retriever._rerank (lines 127-192) for results # [].
Rerank(rs, v) == IF Fails(rs, v) THEN FallbackRank(rs) ELSE MapItems(v.items, rs)

\* r.get("rerank_score", 0)
RerankScore(r) == IF r.has_rerank_score THEN r.rerank_score ELSE 0

\* Fallback as soon as one item carries the flag.
IsFallbackAny(rr) == \E k \in 1..Len(rr) : rr[k].has_rerank_score /\ rr[k].is_fallback

\* Line 112.
IsFallback(rr) == \A k \in 1..Len(rr) : rr[k].has_rerank_score /\ rr[k].is_fallback

\* Lines 113-116.
Threshold(rr) == IF IsFallback(rr) THEN fallback_floor ELSE score_threshold

\* Line 117.
PassesThreshold(r, th) == RerankScore(r) >= th

\* The guarantee without its cut to three results.
FilteredUncut(rr, th) ==
    LET kept == SelectSeq(rr, LAMBDA r : PassesThreshold(r, th))
    IN  IF kept = <<>> /\ rr # <<>> THEN rr ELSE kept

\* Lines 117-125: the list search returns.
Filtered(rr, th) ==
    LET kept == SelectSeq(rr, LAMBDA r : PassesThreshold(r, th))
    IN  IF kept = <<>> /\ rr # <<>> THEN Slice(rr, 0, 3) ELSE kept

\* _CODE_EXTENSIONS (lines 10-16), the two of them the queries and paths use.
CodeExtensions == {"py", "go"}

\* The dotted word of a query, split at its dots: none, utils.py, utils.test.py
\* and the version number v2.5.  Every segment is a run of 1 to 10 word
\* characters.
QueryWords ==
    {<<>>, <<"utils", "py">>, <<"utils", "test", "py">>, <<"v2", "5">>}

\* metadata.file_path of the hits, split at its dots.
Paths == {<<"utils", "py">>, <<"utils", "test", "py">>, <<"main", "go">>}

NoFilename == [lead |-> FALSE, segs |-> <<>>]

RECURSIVE FirstMatch(_, _)
\* Lines 30-34.  On a word of segments s1.s2.s3... the matches re.finditer yields
\* are s1.s2, then .s3.s4, and so on: the lazy group stops at the first dot
\* that a word follows, and the scan resumes after the match.  The first match
\* whose second part is a known extension is returned.
FirstMatch(w, k) ==
    IF 2 * k > Len(w)
    THEN NoFilename
    ELSE IF w[2 * k] \in CodeExtensions
         THEN [lead |-> k > 1, segs |-> <<w[2 * k - 1], w[2 * k]>>]
         ELSE FirstMatch(w, k + 1)

\* Retriever._extract_filename_from_query
ExtractFilename(w) == FirstMatch(w, 1)

\* Line 87: filename in file_path.
Contains(path, fn) ==
    \E a \in 1..(Len(path) - 1) :
        /\ path[a] = fn.segs[1]
        /\ path[a + 1] = fn.segs[2]
        /\ fn.lead => a > 1

\* Lines 83-90: the filename of the query and the hits it marks as boosted.
SearchExtract ==
    /\ rpc = "extract"
    /\ LET fn == ExtractFilename(word)
       IN  /\ has_filename' = (fn # NoFilename)
           /\ results' = [k \in 1..Len(results) |->
                            [results[k] EXCEPT
                               !.match = fn # NoFilename /\ Contains(results[k].path, fn)]]
    /\ rpc' = "boost"
    /\ UNCHANGED <<clock, embVars, docVars, parVars, vsVars, restVars, word, hits, voyage, reranked,
                   threshold, filtered>>

\* Lines 92-99: the boosted hits first, and the early return on no results.
SearchBoost ==
    /\ rpc = "boost"
    /\ results' = IF has_filename
                  THEN SelectSeq(results, LAMBDA r : r.match)
                       \o SelectSeq(results, LAMBDA r : ~r.match)
                  ELSE results
    /\ rpc' = IF results = <<>> THEN "done" ELSE "rerank"
    /\ UNCHANGED <<clock, embVars, docVars, parVars, vsVars, restVars, word, hits, has_filename, voyage,
                   reranked, threshold, filtered>>

\* Line 102.
SearchRerank(v) ==
    /\ rpc = "rerank"
    /\ voyage' = v
    /\ reranked' = Rerank(results, v)
    /\ rpc' = "filter"
    /\ UNCHANGED <<clock, embVars, docVars, parVars, vsVars, restVars, word, hits, has_filename, results,
                   threshold, filtered>>

\* Lines 112-125.
SearchFilter ==
    /\ rpc = "filter"
    /\ threshold' = Threshold(reranked)
    /\ filtered' = Filtered(reranked, Threshold(reranked))
    /\ rpc' = "done"
    /\ UNCHANGED <<clock, embVars, docVars, parVars, vsVars, restVars, word, hits, has_filename, results,
                   voyage, reranked>>

\* What VectorStore.search returns: at most MaxHits hits by descending score.
HitLists ==
    UNION {{[k \in 1..n |-> [id |-> k, score |-> f[k][1], match |-> f[k][2]]] :
              f \in {g \in [1..n -> HitScores \X BOOLEAN] :
                        \A k \in 1..(n - 1) : g[k][1] >= g[k + 1][1]}} :
           n \in 0..MaxHits}

\* What VectorStore.search returns, with the file_path of each hit.
HitListsWithPaths ==
    UNION {{[k \in 1..n |-> [id |-> k, score |-> f[k][1], path |-> f[k][2],
                             match |-> FALSE]] :
              f \in {g \in [1..n -> HitScores \X Paths] :
                        \A k \in 1..(n - 1) : g[k][1] >= g[k + 1][1]}} :
           n \in 0..MaxHits}

(***************************************************************************)
(* SpecBoost: the filename boost of Retriever.search, from the query and   *)
(* the vector search's answer to the list handed to _rerank.               *)
(***************************************************************************)
InitBoost ==
    /\ EmbedderInit(Off)
    /\ batch = NoBatch
    /\ tokenizer = TRUE
    /\ DocsIdle /\ ParserIdle /\ StoreIdle /\ RestIdle
    /\ word \in QueryWords
    /\ hits \in HitListsWithPaths
    /\ results = hits
    /\ has_filename = FALSE
    /\ voyage = [kind |-> "off", items |-> <<>>]
    /\ reranked = <<>>
    /\ threshold = 0
    /\ filtered = <<>>
    /\ rpc = "extract"

NextBoost ==
    \/ SearchExtract
    \/ SearchBoost

SpecBoost == InitBoost /\ [][NextBoost]_vars

(***************************************************************************)
(* SpecSearch: one Retriever.search call from the vector search's answer.  *)
(***************************************************************************)
InitSearch ==
    /\ EmbedderInit(Off)
    /\ batch = NoBatch
    /\ tokenizer = TRUE
    /\ DocsIdle /\ ParserIdle /\ StoreIdle /\ RestIdle
    /\ word = <<>>
    /\ has_filename \in BOOLEAN
    /\ results \in HitLists
    /\ hits = results
    /\ has_filename = FALSE => \A k \in 1..Len(results) : ~results[k].match
    /\ voyage = [kind |-> "off", items |-> <<>>]
    /\ reranked = <<>>
    /\ threshold = 0
    /\ filtered = <<>>
    /\ rpc = "boost"

NextSearch ==
    \/ SearchBoost
    \/ rpc = "rerank" /\ \E v \in VoyageAnswers(results) : SearchRerank(v)
    \/ SearchFilter

SpecSearch == InitSearch /\ [][NextSearch]_vars

(***************************************************************************)
(* SpecThreshold: the threshold rule of search (lines 112-125) applied to  *)
(* every reranked list, lists of mixed origin included.                    *)
(***************************************************************************)
\* Items scored by the remote reranker, items scored by the fallback, and items
\* without a rerank_score.
RankedItems ==
    [id : {0}, score : {5}, has_rerank_score : {TRUE},
     rerank_score : {-60, 3}, is_fallback : {FALSE}]
    \cup [id : {0}, score : {5}, has_rerank_score : {TRUE},
          rerank_score : {1, 3}, is_fallback : {TRUE}]
    \cup [id : {0}, score : {5}, has_rerank_score : {FALSE},
          rerank_score : {0}, is_fallback : BOOLEAN]

InitThreshold ==
    /\ EmbedderInit(Off)
    /\ batch = NoBatch
    /\ tokenizer = TRUE
    /\ DocsIdle /\ ParserIdle /\ StoreIdle /\ RestIdle
    /\ word = <<>>
    /\ hits = <<>>
    /\ has_filename = FALSE
    /\ results = <<>>
    /\ voyage = [kind |-> "off", items |-> <<>>]
    /\ \E rr \in SeqsUpTo(RankedItems, MaxHits) :
          reranked = [k \in 1..Len(rr) |-> [rr[k] EXCEPT !.id = k]]
    /\ threshold = 0
    /\ filtered = <<>>
    /\ rpc = "filter"

NextThreshold == SearchFilter

SpecThreshold == InitThreshold /\ [][NextThreshold]_vars

(***************************************************************************)
(* VectorStore (backend/core/vector_store.py).  top_k of search and the    *)
(* vector dimension are scaled down.                                       *)
(***************************************************************************)
top_k_search == 2
dimensions == 2

\* Similarities of the stored rows to the query.
StoreScores == {-3, 5, 9}

\* What client.search does for one collection: it raises, or returns up to
\* MaxColHits hits by descending similarity.
CollectionAnswers(c) ==
    {[raises |-> TRUE, found |-> <<>>]}
    \cup UNION {{[raises |-> FALSE,
                  found |-> [k \in 1..n |-> [collection |-> c, n |-> k, score |-> f[k]]]] :
                   f \in {g \in [1..n -> StoreScores] :
                             \A k \in 1..(n - 1) : g[k] >= g[k + 1]}} :
                n \in 0..MaxColHits}

RECURSIVE InsertByScore(_, _)
\* Line 157: results.sort(key=score, reverse=True), a stable sort.
InsertByScore(sorted, r) ==
    IF sorted = <<>>
    THEN <<r>>
    ELSE IF Head(sorted).score >= r.score
         THEN <<Head(sorted)>> \o InsertByScore(Tail(sorted), r)
         ELSE <<r>> \o sorted

RECURSIVE SortByScore(_)
SortByScore(rs) ==
    IF rs = <<>> THEN <<>>
    ELSE InsertByScore(SortByScore(SubSeq(rs, 1, Len(rs) - 1)), rs[Len(rs)])

\* A failing collection that ends the whole search with nothing.
StoreSearchCollectionAbort(a) ==
    /\ vpc = "search"
    /\ answers' = Append(answers, a)
    /\ vresults' = IF a.raises THEN <<>> ELSE vresults \o a.found
    /\ col' = col + 1
    /\ vpc' = IF a.raises \/ col = Len(Collections) THEN "return" ELSE "search"
    /\ UNCHANGED <<clock, embVars, docVars, parVars, retVars, restVars, chunks, embeddings, rows,
                   skipped, log>>

\* Lines 98-154: one turn of the loop over the collections.  An exception of
\* the statistics block (lines 99-118) is caught and changes nothing; an
\* exception of the search is caught at line 153.
StoreSearchCollection(a) ==
    /\ vpc = "search"
    /\ answers' = Append(answers, a)
    /\ vresults' = IF a.raises THEN vresults ELSE vresults \o a.found
    /\ col' = col + 1
    /\ vpc' = IF col = Len(Collections) THEN "return" ELSE "search"
    /\ UNCHANGED <<clock, embVars, docVars, parVars, retVars, restVars, chunks, embeddings, rows,
                   skipped, log>>

\* Lines 157-158.
StoreSearchReturn ==
    /\ vpc = "return"
    /\ vresults' = Slice(SortByScore(vresults), 0, top_k_search)
    /\ vpc' = "done"
    /\ UNCHANGED <<clock, embVars, docVars, parVars, retVars, restVars, col, answers, chunks,
                   embeddings, rows, skipped, log>>

(***************************************************************************)
(* SpecStoreSearch: one VectorStore.search call.                           *)
(***************************************************************************)
InitStoreSearch ==
    /\ EmbedderInit(Off)
    /\ batch = NoBatch
    /\ tokenizer = TRUE
    /\ DocsIdle /\ ParserIdle /\ SearchIdle /\ RestIdle
    /\ vpc = "search"
    /\ col = 1
    /\ vresults = <<>>
    /\ answers = <<>>
    /\ chunks = <<>>
    /\ embeddings = <<>>
    /\ rows = [c \in {Collections[1], Collections[2]} |-> <<>>]
    /\ skipped = 0
    /\ log = <<>>

NextStoreSearch ==
    \/ vpc = "search" /\ \E a \in CollectionAnswers(Collections[col]) :
                             StoreSearchCollection(a)
    \/ StoreSearchReturn

SpecStoreSearch == InitStoreSearch /\ [][NextStoreSearch]_vars

\* chunk.text of a chunk: empty, blank, and a text.
ChunkTexts == {"", "  ", "abc"}

\* str.strip on the texts above.
Strip(text) == IF text = "  " THEN "" ELSE text

\* Embeddings handed to upsert: empty, too short, right, with a NaN, with an
\* infinity of either sign, too long.
Vectors ==
    {<<>>, <<"1.0">>, <<"1.0", "1.0">>, <<"1.0", "nan">>, <<"inf", "1.0">>,
     <<"1.0", "-inf">>, <<"1.0", "1.0", "1.0">>}

\* Line 48.
ValidText(chunk) == chunk.text # "" /\ Strip(chunk.text) # ""

\* Line 52.
ValidDimension(embedding) == embedding # <<>> /\ Len(embedding) = dimensions

\* Line 57.
NoNanInf(embedding) ==
    \A k \in 1..Len(embedding) : embedding[k] \notin {"nan", "inf", "-inf"}

\* VectorStore._get_collection
GetCollection(source_type) ==
    IF source_type = "chat" THEN Collections[2] ELSE Collections[1]

\* VectorStore.upsert (lines 38-80).
Upsert ==
    /\ vpc = "upsert"
    /\ IF chunks = <<>> \/ embeddings = <<>>
       THEN UNCHANGED <<rows, skipped, log>>
       ELSE LET pairs == [k \in 1..Min(Len(chunks), Len(embeddings)) |->
                            [chunk |-> chunks[k], vector |-> embeddings[k]]]
                data == SelectSeq(pairs, LAMBDA pr :
                            /\ ValidText(pr.chunk)
                            /\ ValidDimension(pr.vector)
                            /\ NoNanInf(pr.vector))
                count == Len(pairs) - Len(data)
            IN  /\ skipped' = count
                /\ log' = IF count > 0 THEN Append(log, count) ELSE log
                /\ rows' = [rows EXCEPT ![GetCollection(chunks[1].source_type)] = @ \o data]
    /\ vpc' = "done"
    /\ UNCHANGED <<clock, embVars, docVars, parVars, retVars, restVars, col, vresults, answers,
                   chunks, embeddings>>

(***************************************************************************)
(* SpecUpsert: upload_file (routers/ingest.py lines 119-121) hands the     *)
(* chunks of one file and what embed_documents returned for their texts,   *)
(* at most one vector per text, to VectorStore.upsert.                     *)
(***************************************************************************)
InitUpsert ==
    /\ EmbedderInit(Off)
    /\ batch = NoBatch
    /\ tokenizer = TRUE
    /\ DocsIdle /\ ParserIdle /\ SearchIdle /\ RestIdle
    /\ vpc = "upsert"
    /\ col = 1
    /\ vresults = <<>>
    /\ answers = <<>>
    /\ \E st \in {"pdf", "chat"} :
          chunks \in SeqsUpTo([text : ChunkTexts, source_type : {st}], MaxChunks) \ {<<>>}
    /\ embeddings \in SeqsUpTo(Vectors, MaxChunks)
    /\ Len(embeddings) <= Len(chunks)
    /\ rows = [c \in {Collections[1], Collections[2]} |-> <<>>]
    /\ skipped = 0
    /\ log = <<>>

NextUpsert == Upsert

SpecUpsert == InitUpsert /\ [][NextUpsert]_vars

(***************************************************************************)
(* Claims about the Embedder budget.                                       *)
(***************************************************************************)
\* The caller has just run the reserve increments and sent nothing yet.
JustReserved(t) == pc[t] = "post" /\ attempt[t] = 0

\* C1. Budget monotonicity: at the instant just after each successful reserve
\* (the _wait_for_budget call followed by the counter increments),
\* window_requests <= RPM limit and window_tokens <= TPM limit.
C1_BudgetMonotonicity ==
    JustReserved("doc") =>
        /\ window_requests <= rpm_limit
        /\ window_tokens <= tpm_limit

\* The caller has evaluated the ceiling check and has not yet incremented.
Pending(t) == pc[t] \in {"sleep_window", "reset", "reserve"}

\* C2. Reserve is atomic under concurrency: no two callers sharing the Embedder
\* have both evaluated the RPM/TPM ceiling check against the same counter values
\* before either has incremented window_requests / window_tokens.
C2_ReserveAtomic ==
    \A t1, t2 \in Threads :
        (t1 # t2 /\ Pending(t1) /\ Pending(t2)) => checked[t1] # checked[t2]

\* The batches reserved so far follow one another from index 0 without gap
\* or overlap, and each holds at least one text.
RECURSIVE Contiguous(_, _)
Contiguous(bs, from) ==
    IF bs = <<>>
    THEN TRUE
    ELSE Head(bs)[1] = from /\ Head(bs)[2] >= 1
         /\ Contiguous(Tail(bs), from + Head(bs)[2])

\* Every text of texts is in exactly one reserved batch once the call returns.
EveryTextInOneBatch ==
    /\ Contiguous(batches, 0)
    /\ pc["doc"] = "done" =>
          Sum([k \in 1..Len(batches) |-> batches[k][2]]) = Len(texts)

\* C4. Order preservation: when embed_documents returns, len(output) ==
\* len(texts), output[i] is the vector the provider computed for texts[i], and
\* every text was sent in exactly one batch.
C4_OrderPreservation ==
    pc["doc"] = "done" =>
        /\ Len(all_embeddings) = Len(texts)
        /\ \A k \in 1..Len(all_embeddings) : all_embeddings[k] = Vec(texts[k])
        /\ EveryTextInOneBatch

\* C10. Batch shrink convergence: the batch that embed_documents reserves and
\* sends after shrinking has new_size >= 1 and either estimate(new_batch) <= TPM
\* or new_size == 1.
C10_ShrinkConvergence ==
    (JustReserved("doc") /\ shrunk) =>
        /\ Len(batch["doc"]) >= 1
        /\ \/ est["doc"] <= tpm_limit
           \/ Len(batch["doc"]) = 1

(***************************************************************************)
(* Claims about _embed_batch under 429 responses.                          *)
(***************************************************************************)
\* The delay the claim gives for a 429: the Retry-After seconds when the header
\* is a number, otherwise 2 s doubling with the attempt, at most 60 s.
HeaderSeconds(h) == CASE h = "0" -> 0 [] h = "7" -> 7 [] h = "90" -> 90

DelayAsClaimed(h, n, delay) ==
    IF h \in {"0", "7", "90"}
    THEN delay = HeaderSeconds(h)
    ELSE /\ delay <= 60
         /\ n = 1 => delay = 2
         /\ n \in 2..5 => delay = 2 * Pow2(n - 1)
         /\ n > 5 => delay = 32

BatchRetried ==
    /\ Len(posted["b"]) = attempt["b"]
    /\ \A k \in 1..Len(posted["b"]) : posted["b"][k] = batch["b"]
    /\ resp["b"].status = 429 =>
          /\ pc["b"] \in {"post", "sleep_429"}
          /\ DelayAsClaimed(resp["b"].retry_after, attempt["b"], slept["b"])
          /\ pc["b"] = "sleep_429" => slept["b"] > 0
    /\ pc["b"] \in {"got", "raised", "done"} => resp["b"].status # 429

\* C5. No batch is dropped on HTTP 429: for any finite run of 429 responses
\* followed by a 200, _embed_batch re-sends the identical payload after each 429,
\* sleeping Retry-After if the header parses and otherwise a delay that doubles
\* with the attempt (2, 4, 8, 16, 32, then 32) and never exceeds 60 s; it never
\* returns while the last response was 429, and it eventually returns the
\* vectors of the 200 response.
C5_NoBatchDropped ==
    /\ []BatchRetried
    /\ <>(pc["b"] = "got" /\ resp["b"].status = 200)

\* A run of more than five 429 responses, with and without Retry-After, after
\* which the batch's vectors are returned.
C5_Witness ==
    /\ pc["b"] = "got"
    /\ attempt["b"] = Max429 + 1
    /\ resp["b"].data = [k \in 1..Len(batch["b"]) |-> Vec(batch["b"][k])]
    /\ Len(batch["b"]) > 1

(***************************************************************************)
(* Claims about the AIParser budget.                                       *)
(***************************************************************************)
\* C3. Daily ceiling is hard: whenever daily_tokens + estimated_tokens > TPD at a
\* reserve, the reserve raises the quota-exhausted error and leaves window_start,
\* window_requests, window_tokens and daily_tokens exactly as they were before
\* the call, including when the 60-second window had already elapsed.
C3_DailyCeilingHard ==
    \A t \in Threads :
        (ppc[t] \in {"reserve", "sleep", "reset", "quota"}
            /\ ExceedsTpd(entry[t].daily_tokens, pest[t]))
        => (ppc[t] = "quota" /\ parser = entry[t])

\* The part of C3 that the code keeps: an over-ceiling reserve raises, and
\* daily_tokens is left as it was.
DailyCeilingRaises ==
    \A t \in Threads :
        (ppc[t] \in {"reserve", "sleep", "reset", "quota"}
            /\ ExceedsTpd(entry[t].daily_tokens, pest[t]))
        => (ppc[t] = "quota" /\ parser.daily_tokens = entry[t].daily_tokens)

\* The AIParser's reserve under its lock: at most one caller is between the
\* ceiling check and the increments.
ParserReserveAtomic ==
    \A t1, t2 \in Threads :
        (t1 # t2) => ~(ppc[t1] \in {"wait", "sleep", "reset", "reserve", "quota"}
                       /\ ppc[t2] \in {"wait", "sleep", "reset", "reserve", "quota"})

(***************************************************************************)
(* Claims about Retriever.search.                                          *)
(***************************************************************************)
AllBelow(rr, th) == \A k \in 1..Len(rr) : RerankScore(rr[k]) < th

\* C6: whenever the reranked list is non-empty and every rerank_score is below
\* the threshold in force, search returns exactly the first min(3, len(reranked))
\* reranked results, in rerank order.
C6_NonEmptyGuarantee ==
    (rpc = "done" /\ reranked # <<>> /\ AllBelow(reranked, threshold))
        => /\ Len(filtered) = Min(3, Len(reranked))
           /\ \A k \in 1..Len(filtered) : filtered[k] = reranked[k]

C6_Witness ==
    /\ rpc = "done"
    /\ Len(reranked) = 4
    /\ AllBelow(reranked, threshold)
    /\ filtered = SubSeq(reranked, 1, 3)

\* C7: whatever the reranker does, if the vector store returned at least one hit
\* then search returns at least one result.
C7_EmptyOnlyWithoutHits ==
    (rpc = "done" /\ results # <<>>) => filtered # <<>>

\* C8: for every non-empty candidate list and every way the remote reranker
\* fails, _rerank returns a non-empty list in which every item carries the
\* fallback flag and a rerank_score in [0,1].
C8_FallbackTotal ==
    (rpc \in {"filter", "done"} /\ Fails(results, voyage))
        => /\ reranked # <<>>
           /\ \A k \in 1..Len(reranked) :
                 /\ reranked[k].is_fallback
                 /\ reranked[k].has_rerank_score
                 /\ reranked[k].rerank_score >= 0
                 /\ reranked[k].rerank_score <= 10

C8_Witness ==
    /\ rpc = "filter"
    /\ voyage.kind = "timeout"
    /\ \E k \in 1..Len(reranked) :
          reranked[k].score < 0 /\ reranked[k].rerank_score = 0 /\ reranked[k].is_fallback

Flagged(r) == r.has_rerank_score /\ r.is_fallback
AllFlagged(rr) == \A k \in 1..Len(rr) : Flagged(rr[k])
NoneFlagged(rr) == \A k \in 1..Len(rr) : ~Flagged(rr[k])
MixedSet(rr) == ~AllFlagged(rr) /\ ~NoneFlagged(rr)
FilteredWith(th) ==
    (\E k \in 1..Len(reranked) : RerankScore(reranked[k]) >= th)
        => filtered = SelectSeq(reranked, LAMBDA r : RerankScore(r) >= th)

C11_ErrorsRetried ==
    \A t \in Callers : pc[t] = "raised" => resp[t].status \notin {-1, 500}

ShortAnswer(t) ==
    pc[t] = "got" /\ resp[t].status = 200 /\ Len(resp[t].data) < Len(batch[t])

\* C12: a 200 answer with fewer vectors than inputs (or with no data field) is
\* fatal for that batch: embed_documents raises and never takes the short list
\* into its result.
C12_MalformedIsFatal ==
    [][ShortAnswer("doc")
         => /\ pc'["doc"] \in {"got", "raised"}
            /\ all_embeddings' = all_embeddings]_vars

\* What parse_content returns on its ordinary paths.
NormalResults == {r.value : r \in CallResults}

\* C13: a reserve refused for the daily ceiling ends parse_content in an outcome
\* that no ordinary return produces, without a remote call and without a retry.
C13_QuotaSurfaces ==
    \A t \in Threads :
        returned[t].cause = "quota" => returned[t].value \notin NormalResults

(***************************************************************************)
(* Claims about the per-minute window of the Embedder.                     *)
(***************************************************************************)
Exceeds(requests, tokens, t) == ExceedsRpm(requests, 1) \/ ExceedsTpm(tokens, est[t])

\* C14: a reserve that would exceed RPM or TPM sleeps until window_start + 60 s,
\* then window_requests and window_tokens are reset to zero with a fresh
\* window_start and the same reserve is admitted; a reserve within both
\* ceilings is admitted without a sleep.
C14_WaitThenAdmit ==
    [][/\ (pc["q"] = "wait" /\ pc'["q"] # "wait")
            => IF Exceeds(window_requests', window_tokens', "q")
               THEN /\ pc'["q"] = "sleep_window"
                    /\ wake'["q"] = window_start' + 60
               ELSE pc'["q"] = "reserve"
       /\ (pc["q"] = "sleep_window" /\ pc'["q"] # "sleep_window")
            => pc'["q"] = "reset" /\ Now >= wake["q"]
       /\ (pc["q"] = "reset" /\ pc'["q"] # "reset")
            => /\ pc'["q"] = "reserve"
               /\ window_requests' = 0
               /\ window_tokens' = 0
               /\ window_start' = Now
       /\ (pc["q"] = "reserve" /\ pc'["q"] # "reserve")
            => /\ pc'["q"] = "post"
               /\ window_requests' = window_requests + 1
               /\ window_tokens' = window_tokens + est["q"]]_vars

\* The third of three calls in a row found both requests of the window used
\* (the tokens would still fit), has slept past window_start + 60 s and is
\* about to reset the window.
C14_Witness ==
    /\ pc["q"] = "reset"
    /\ calls["q"] = 3
    /\ window_requests = rpm_limit
    /\ ~ExceedsTpm(window_tokens, est["q"])
    /\ Now > window_start + 60

\* The same wait-then-admit steps in AIParser._wait_for_budget, whose sleep and
\* reset happen under the budget lock.
ParserWaitThenAdmit ==
    [][\A t \in Threads :
        /\ (ppc[t] = "wait" /\ ppc'[t] = "sleep")
             => /\ pwake' = parser'.window_start + 60
                /\ ~ExceedsTpd(parser'.daily_tokens, pest[t])
        /\ (ppc[t] = "sleep" /\ ppc'[t] # "sleep")
             => ppc'[t] = "reset" /\ Now >= pwake /\ budget_lock = t
        /\ (ppc[t] = "reset" /\ ppc'[t] # "reset")
             => /\ ppc'[t] = "reserve"
                /\ parser'.window_requests = 0
                /\ parser'.window_tokens = 0
                /\ parser'.window_start = Now
        /\ (ppc[t] = "reserve" /\ ppc'[t] # "reserve")
             => /\ ppc'[t] = "call"
                /\ parser'.window_requests = parser.window_requests + 1
                /\ parser'.window_tokens = parser.window_tokens + pest[t]]_vars

\* C15: after a 200 answer that reports prompt_tokens as a non-negative integer,
\* window_tokens is adjusted by exactly (actual - estimated); when no usage is
\* reported window_tokens keeps the estimate; the request counter is not
\* touched by the reconcile.
C15_Reconcile ==
    [][(pc["doc"] = "got" /\ pc'["doc"] # "got")
         => /\ window_requests' = window_requests
            /\ IF resp["doc"].prompt_tokens >= 0
               THEN window_tokens' - window_tokens
                       = resp["doc"].prompt_tokens - est["doc"]
               ELSE window_tokens' = window_tokens]_vars

C15_Witness ==
    /\ pc["doc"] = "done"
    /\ Len(batches) = 1
    /\ est["doc"] = 4
    /\ window_tokens = 5

(***************************************************************************)
(* Claims about Retriever._rerank.                                         *)
(***************************************************************************)
InRange(item) == item.index >= 0 /\ item.index < Len(results)

\* C16: for every list of (index, relevance_score) items the reranker returns,
\* _rerank outputs, in returned order, exactly the candidates at the indices
\* 0 <= i < len(candidates), each with the returned score and without the
\* fallback flag; items with a negative or too large index are discarded.
C16_RemoteMapping ==
    (rpc \in {"filter", "done"} /\ voyage.kind = "ok")
        => LET kept == SelectSeq(voyage.items, InRange)
           IN  /\ Len(reranked) = Len(kept)
               /\ \A k \in 1..Len(kept) :
                     /\ reranked[k].id = results[kept[k].index + 1].id
                     /\ reranked[k].rerank_score = kept[k].relevance_score
                     /\ ~reranked[k].is_fallback

\* C17: when the reranker is unavailable (no key, timeout, exception, non-200,
\* empty data) search still returns results: at most top_k_rerank of them,
\* each one of the first top_k_rerank candidates with its similarity clamped
\* into [0,1] as rerank_score, flagged as fallback, by descending score.
C17_UnavailableDegrades ==
    (rpc = "done" /\ results # <<>> /\ voyage.kind \in Failures)
        => /\ filtered # <<>>
           /\ Len(filtered) <= top_k_rerank
           /\ \A k \in 1..Len(filtered) :
                 /\ \E j \in 1..Min(top_k_rerank, Len(results)) :
                       /\ results[j].id = filtered[k].id
                       /\ filtered[k].score = results[j].score
                 /\ filtered[k].rerank_score = Max(0, Min(10, filtered[k].score))
                 /\ filtered[k].is_fallback
           /\ \A k \in 1..(Len(filtered) - 1) :
                 /\ filtered[k].rerank_score >= filtered[k + 1].rerank_score
                 /\ \A j \in (k + 1)..Len(filtered) : filtered[j].id # filtered[k].id

\* The reranker answered 503, more hits than top_k_rerank were found, and the
\* results that pass the floor are returned, flagged.
C17_Witness ==
    /\ rpc = "done"
    /\ voyage.kind = "non200"
    /\ Len(results) > top_k_rerank
    /\ Len(filtered) = 2
    /\ filtered[1].is_fallback
    /\ filtered[1].rerank_score = 5
    /\ \E k \in 1..top_k_rerank : results[k].score < 0

(***************************************************************************)
(* Claims about the filename boost.                                        *)
(***************************************************************************)
\* The query's word is a file name with a known extension.
NamesFile(w) == Len(w) >= 2 /\ w[Len(w)] \in CodeExtensions

\* The path contains the whole word.
PathHas(path, w) ==
    \E a \in 0..(Len(path) - Len(w)) : SubSeq(path, a + 1, a + Len(w)) = w

SamePlace(a, b) == PathHas(results[a].path, word) <=> PathHas(results[b].path, word)

Permutation ==
    /\ Len(results) = Len(hits)
    /\ \A k \in 1..Len(hits) :
          \E j \in 1..Len(results) :
              /\ results[j].id = hits[k].id
              /\ results[j].score = hits[k].score
              /\ results[j].path = hits[k].path

\* C18: when the query has a file name with a known extension, the list handed
\* to the reranker is a permutation of the hits with every similarity
\* unchanged, the hits whose file_path contains that name come before all
\* others, and each of the two groups is by descending similarity; when the
\* query has no such name the list is in vector-store order.
C18_BoostReorders ==
    rpc = "rerank"
        => /\ Permutation
           /\ IF NamesFile(word)
              THEN \A a, b \in 1..Len(results) :
                      /\ (PathHas(results[a].path, word)
                             /\ ~PathHas(results[b].path, word)) => a < b
                      /\ (a < b /\ SamePlace(a, b))
                            => results[a].score >= results[b].score
              ELSE \A k \in 1..Len(results) : results[k].id = k

\* The same for the queries whose file name _extract_filename_from_query finds.
BoostReordersFound ==
    (rpc = "rerank" /\ (NamesFile(word) => ExtractFilename(word).segs = word))
        => C18_BoostReorders

(***************************************************************************)
(* Claims about VectorStore.                                               *)
(***************************************************************************)
RECURSIVE Found(_)
\* The hits of the collections whose search did not raise.
Found(as) == IF as = <<>> THEN <<>> ELSE Found(SubSeq(as, 1, Len(as) - 1)) \o as[Len(as)].found

Returned(h) == \E k \in 1..Len(vresults) : vresults[k] = h

\* C19: if the search of one collection raises, that collection contributes no
\* hits and the hits of the other collection are returned, merged, by
\* descending score and cut to top_k; the call itself does not raise.
C19_FailureIsolated ==
    (vpc = "done" /\ \E c \in 1..Len(answers) : answers[c].raises)
        => LET found == Found(answers)
           IN  /\ Len(vresults) = Min(top_k_search, Len(found))
               /\ \A k \in 1..Len(vresults) :
                     /\ \E j \in 1..Len(found) : found[j] = vresults[k]
                     /\ \A j \in 1..Len(vresults) : j # k => vresults[j] # vresults[k]
                     /\ k < Len(vresults) => vresults[k].score >= vresults[k + 1].score
               /\ \A j \in 1..Len(found) :
                     ~Returned(found[j])
                        => \A k \in 1..Len(vresults) : vresults[k].score >= found[j].score

\* The first collection raised, the second returned more hits than top_k, and
\* the best top_k of them are returned.
C19_Witness ==
    /\ vpc = "done"
    /\ answers[1].raises
    /\ Len(answers[2].found) = 3
    /\ Len(vresults) = 2
    /\ vresults[1].collection = Collections[2]

Inserted == rows[Collections[1]] \o rows[Collections[2]]

ValidPair(k) ==
    /\ ValidText(chunks[k])
    /\ Len(embeddings[k]) = dimensions
    /\ NoNanInf(embeddings[k])

\* C20: upsert inserts no row whose text is empty after trimming, whose vector
\* has the wrong length or holds NaN or an infinity; it inserts every other
\* pair; skipped plus inserted equals the number of chunks passed in, and the
\* skip count is reported.
C20_UpsertValidation ==
    vpc = "done" /\ chunks # <<>>
        => /\ \A k \in 1..Len(Inserted) :
                 /\ Strip(Inserted[k].chunk.text) # ""
                 /\ Len(Inserted[k].vector) = dimensions
                 /\ NoNanInf(Inserted[k].vector)
           /\ \A k \in 1..Min(Len(chunks), Len(embeddings)) :
                 ValidPair(k)
                    => \E j \in 1..Len(Inserted) :
                          Inserted[j] = [chunk |-> chunks[k], vector |-> embeddings[k]]
           /\ skipped + Len(Inserted) = Len(chunks)
           /\ skipped > 0 => log = <<skipped>>

\* The same when upsert is given as many vectors as chunks.
UpsertValidatesPairs ==
    Len(embeddings) = Len(chunks) => C20_UpsertValidation

(***************************************************************************)
(* Claims about oversized work in embed_documents.                         *)
(***************************************************************************)
\* embed_documents was given one text whose estimate alone is over the TPM limit.
Oversized == Len(texts) = 1 /\ EstimateTokens(texts) > tpm_limit

\* C21: embed_documents on a single text whose estimate alone exceeds TPM does
\* not deadlock: its reserve sleeps at most once and is then admitted, the loop
\* index strictly increases on every iteration, the call returns after the 200
\* answer, and window_tokens does not exceed TPM in the window of the reserve.
C21_OversizedProgress ==
    Oversized =>
        /\ pc["doc"] = "reset" => Len(batches) = 0
        /\ pc["doc"] \in {"post", "sleep_429", "got"}
              => /\ Len(batches) = 1
                 /\ window_tokens <= tpm_limit
        /\ pc["doc"] = "done" => i = 1

\* The progress half of C21 on its own: one sleep, then the reset admits the
\* reserve; the index moves past the text and the call returns.
OversizedAdmitted ==
    [][Oversized =>
        /\ (pc["doc"] = "wait" /\ pc'["doc"] # "wait")
              => pc'["doc"] \in {"sleep_window", "reset"} /\ batches = <<>>
        /\ (pc["doc"] = "reset" /\ pc'["doc"] # "reset") => pc'["doc"] = "reserve"
        /\ (pc["doc"] = "reserve" /\ pc'["doc"] # "reserve")
              => pc'["doc"] = "post" /\ batches' = <<<<0, 1>>>>
        /\ (pc["doc"] = "got" /\ pc'["doc"] # "got")
              => i' = 1 /\ i = 0 /\ pc'["doc"] = "batch"
        /\ (pc["doc"] = "batch" /\ i = 1) => pc'["doc"] \in {"batch", "done"}]_vars

(***************************************************************************)
(* Claims about the AIParser's daily counter and retry loop.               *)
(***************************************************************************)
\* C22: the daily ceiling is a calendar-day counter: daily_tokens counts only
\* the tokens reserved in the current calendar day, so a reserve is refused for
\* the daily quota only when today's reserved tokens plus its cost exceed TPD,
\* and a reserve refused yesterday is admitted today.
C22_CalendarDayCounter ==
    \A t \in Threads : ppc[t] = "quota" => ExceedsTpd(today_tokens, pest[t])

\* What the code does instead: daily_tokens is never lowered, whatever the day.
DailyTokensNeverReset ==
    [][parser'.daily_tokens >= parser.daily_tokens]_vars

InEmbedBatch(t) == pc[t] \in {"post", "sleep_429", "got"}

\* C25: the request ceiling covers every HTTP attempt: the POSTs sent within
\* one 60-second window, each retry after a 429 counted, are at most the RPM
\* limit.  (Every POST of the call was sent after its reserve, hence after
\* window_start.)
C25_CeilingCoversAttempts ==
    (InEmbedBatch("b") /\ Now - window_start < window_seconds)
        => Len(posted["b"]) <= rpm_limit

\* What the code counts: one request per reserve, however many POSTs follow.
RequestsCountedPerReserve ==
    InEmbedBatch("b") => window_requests = 1

\* C26: window_tokens and window_requests are never negative, whatever the
\* interleaving of concurrent callers, including a window reset by one caller
\* between another caller's reserve and its reconcile.
C26_CountersNonNegative ==
    /\ window_requests >= 0
    /\ window_tokens >= 0

\* The half of C26 that holds: the request counter is only incremented or reset.
RequestsNonNegative == window_requests >= 0

(***************************************************************************)
(* Claims about the origin of the reranked list.                           *)
(***************************************************************************)
\* C27: the list _rerank returns is never mixed: every item carries the
\* fallback flag when the remote path failed, at once or part-way, and no item
\* carries it when the remote path succeeded.
C27_NeverMixed ==
    rpc \in {"filter", "done"}
        => /\ ~MixedSet(reranked)
           /\ Fails(results, voyage) => AllFlagged(reranked)
           /\ ~Fails(results, voyage) => NoneFlagged(reranked)

\* The reranker's first item mapped onto a candidate and its second item made
\* results[index] raise: the list returned is the fallback's.
C27_Witness ==
    /\ rpc = "filter"
    /\ voyage.kind = "ok"
    /\ Len(voyage.items) = 2
    /\ voyage.items[1].index = 0
    /\ voyage.items[2].index < -Len(results)
    /\ Len(reranked) > 1
    /\ AllFlagged(reranked)

(***************************************************************************)
(* Claims about the library cache.                                         *)
(***************************************************************************)
\* C24: a GET /api/library that begins after a modification of the store and
\* the deletion of 'api:library' have completed returns data computed from the
\* modified store, whatever a concurrent GET did in between.
C24_CacheInvalidation ==
    \A r \in Requests :
        (gpc[r] = "idle" /\ gout[r] # NoKey) => gout[r] >= gfloor[r]

(***************************************************************************)
(* Claims about rate_limit_ip.                                             *)
(***************************************************************************)
\* C28: a request is rejected exactly when its incremented count exceeds the
\* limit, a Redis failure lets the request through, and every counter key that
\* exists carries an expiry once no EXPIRE is pending, so a rejected IP is
\* admitted again after the window, even if the EXPIRE after the first INCR
\* failed.
C28_RateLimitExpires ==
    /\ \A r \in Requests :
          ip_verdict[r] = "rejected" <=> (ipc[r] = "idle" /\ ip_count[r] > ip_limit)
    /\ (ip_key.count > 0 /\ \A r \in Requests : ipc[r] # "expire") => ip_key.expires

\* The decision half of C28, which the code keeps.
RejectedOnlyOverLimit ==
    \A r \in Requests :
        ip_verdict[r] = "rejected" <=> (ipc[r] = "idle" /\ ip_count[r] > ip_limit)

\* The consequence of a key without expiry: it is never removed, so once the
\* limit is passed every later request of the IP is rejected.
KeyWithoutExpiryStays ==
    [][(ip_key.count > 0 /\ ~ip_key.expires /\ \A r \in Requests : ipc[r] # "expire")
          => ip_key'.count >= ip_key.count /\ ~ip_key'.expires]_vars

(***************************************************************************)
(* Claims about the persisted daily counter.                               *)
(***************************************************************************)
\* C29: the persisted counter loses no update: once the updates of the day
\* have been saved, the stored embedding_requests and embedding_chunks equal
\* the sums of the increments made that day and embedding_tokens_used the sum
\* of the reported prompt_tokens; the first update of a new day starts from
\* zero.
C29_NoLostUpdate ==
    (InFlight = 0 /\ made.updates > 0)
        => /\ counter_file.date = utc_day
           /\ counter_file.embedding_requests = made.embedding_requests
           /\ counter_file.embedding_chunks = made.embedding_chunks
           /\ counter_file.embedding_tokens_used = made.embedding_tokens_used

(***************************************************************************)
(* Claims about the chat stream.                                           *)
(***************************************************************************)
\* The content events of chunks 1..n, in production order.
Contents(n) == [k \in 1..n |-> Event("content", k)]

\* The events of a finished stream: the contents in production order, the error
\* text after them when the LLM raised, then the sources when there are
\* results, then [DONE].
ExpectedEvents ==
    Contents(llm_stream.chunks)
    \o (IF llm_stream.ends = "raise" THEN <<Event("content", 0)>> ELSE <<>>)
    \o (IF has_results THEN <<Event("sources", 0)>> ELSE <<>>)
    \o <<Event("[DONE]", 0)>>

\* The items put on the queue so far end with at most one terminal item.
OneTerminalLast ==
    \A k \in 1..Len(chunk_queue) :
        chunk_queue[k].type # "chunk"
            => k = Len(chunk_queue) /\ tpc.at \in {"exited_done", "exited_error"}

\* The part of C30 about the order of the events.
StreamOrdered ==
    /\ OneTerminalLast
    /\ spc \in {"cache", "finished"} => events = ExpectedEvents

\* Every stream is consumed to its end.
StreamTerminates == <>(spc = "finished")

====
